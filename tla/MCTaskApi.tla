----------------------------- MODULE MCTaskApi -----------------------------
EXTENDS TaskApi, TLC

CONSTANTS p1, p2, restart, status, wipe

\* The second delivery may carry the name of the ticket of the first as its token; for the first
\* it is a made-up one.
Tokens == {{}, {<<restart, 1>>}}

\* harborbeacon_service with two requests at a time; its threads are alike, so that the one
\* decision may as well be served by p2, ...
Service == [processes |-> {{p1, p2}}, turns |-> {p1, p2}, decides |-> {p2},
            tasks |-> {restart}, tokens |-> {{}}, decisions |-> 1, crashes |-> 0, faults |-> 0]

\* ... assistant_task_api beside a worker of agent_hub_admin_api, with a crash of either or with a
\* failing write, ...
Split == [processes |-> {{p1}, {p2}}, turns |-> {p1}, decides |-> {p2},
          tasks |-> {restart}, tokens |-> Tokens, decisions |-> 1, crashes |-> 1, faults |-> 0]
Faulty == [Split EXCEPT !.crashes = 0, !.faults = 1]

\* ... and harborbeacon_service with one request at a time: a task that needs a ticket, and two
\* that do not.
Calm == [processes |-> {{p1}}, turns |-> {p1}, decides |-> {p1},
         tasks |-> {restart}, tokens |-> Tokens, decisions |-> 2, crashes |-> 1, faults |-> 2]
Plain == [Calm EXCEPT !.tasks = {status, wipe}, !.decisions = 0, !.faults = 1]

Deployments == {Service, Split, Faulty, Calm, Plain}

\* Two deliveries of an unguarded turn.
Redelivered == {[Service EXCEPT !.tasks = {status}, !.decisions = 0]}
=============================================================================
