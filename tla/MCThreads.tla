------------------------------ MODULE MCThreads ------------------------------
(* Small instances of Threads for TLC. *)
EXTENDS Threads

Shell == {"fork", "wait"}

(* Processes without threads, on a machine that runs out of memory. *)
Processes == [init |-> Shell, user |-> {"fork", "exit", "wait", "kill", "exec"},
              pids |-> 3, tids |-> 0, nomem |-> TRUE]

(* One process with threads, which do not fork, wait or exec. *)
Threaded == [init |-> Shell,
             user |-> {"create", "thread_exit", "join", "exit", "kill", "io", "op"},
             pids |-> 2, tids |-> 3, nomem |-> FALSE]

(* A process and one thread, both of which may exec; creating the thread   *)
(* may fail.                                                               *)
Execs == [init |-> {"fork"}, user |-> {"create", "exec", "io"},
          pids |-> 2, tids |-> 1, nomem |-> TRUE]

MCPrograms == {Processes, Threaded, Execs}

(* Threads that exit, and a main thread that waits for child processes. *)
MCWaitPrograms == {[init |-> Shell, user |-> {"create", "thread_exit", "wait"},
                    pids |-> 3, tids |-> 2, nomem |-> FALSE]}
=============================================================================
