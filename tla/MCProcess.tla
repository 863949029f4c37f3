------------------------------ MODULE MCProcess ------------------------------
EXTENDS Process

Waited    == {3, 0, -1, -2}
Signalled == {3, 0, -1, -2}

(* The fields of an empty slot are never read, the signals of a task that  *)
(* has begun to exit neither, the arguments of waitpid only inside waitpid *)
(* and the place where a task is not once it is a zombie.                  *)
Live(f)  == [t \in Tasks |-> IF Exists(t) THEN f[t] ELSE f[init]]
Heard(f) == [t \in Tasks |-> IF Alive(t) /\ call[t] # "exit" THEN f[t] ELSE {}]
Place    == [t \in Tasks |-> IF Alive(t) THEN call[t] ELSE "exit"]
NotAsking == [pid |-> 0, nohang |-> FALSE]
Asking    == [t \in Tasks |-> IF Exists(t) /\ call[t] \in {"scan", "wait"} THEN arg[t] ELSE NotAsking]
Seen == <<state, Live(pid), Live(father), Live(pgrp), Live(session), Live(leader), Heard(signal),
          Heard(blocked), Place, Asking, current, last_pid, shell>>
=============================================================================
