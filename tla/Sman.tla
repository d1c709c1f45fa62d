-------------------------------- MODULE Sman ---------------------------------
(***************************************************************************)
(* sman ("superman", src/sman/sman.c) as the parent of every OpenAxiom     *)
(* process: it starts them one by one, then waits for deaths and applies   *)
(* the death action each child was given.  The sockets are files in /tmp   *)
(* that outlive their makers.                                              *)
(***************************************************************************)
EXTENDS Integers, Sequences, SequencesExt

CONSTANTS
  Pid,        \* process ids; the kernel gives a reaped one out again
  Options,    \* optional children the command line may ask for: window,
              \* hypertex, graphics
  MayFail,    \* may fork and open_server fail?
  MaxForks    \* bound on the length of spad_process_list

Optional == {"window", "hypertex", "graphics"}
Role == {"core", "session", "relay"} \cup Optional

ASSUME SmanAssumption ==
  /\ Options \subseteq Optional /\ MayFail \in BOOLEAN /\ MaxForks \in Nat
  /\ -1 \notin Pid                          \* fork returns it when it fails

VARIABLES
  proc,               \* per pid, the role and the state of the process
  spad_process_list,  \* newest first; entries are never removed
  sockets,            \* socket files that exist
  death_signal,
  pc                  \* next thing main starts, then "wait"; "exited" after a
                      \* death action, "failed" or "killed" otherwise
smanVars == <<proc, spad_process_list, sockets, death_signal, pc>>

Socket == {"SpadServer", "SessionServer", "SessionIO", "MenuServer"}
Startup == <<"core", "io", "session", "window", "hypertex", "graphics", "relay",
             "wait">>
Ended == {"exited", "failed", "killed"}

(* death_action of each child; only a relaunched child needs its command. *)
DeathAction == [r \in Role |->
  CASE r \in {"core", "session", "relay"} -> "Die"
    [] r = "window"                       -> "NadaDelShitsky"
    [] r = "graphics"                     -> "DoItAgain"
    [] r = "hypertex"                     -> "CleanHypertexSocket"]

Absent == [role |-> "none", state |-> "free"]

(* A failed fork is listed too, with the pid -1 that fork returned. *)
SpadProcess == [proc_id : Pid \cup {-1}, role : Role, death_action : Range(DeathAction)]

SmanTypeOK ==
  /\ proc \in [Pid -> {Absent} \cup [role : Role,
                                     state : {"running", "signalled", "zombie"}]]
  /\ spad_process_list \in Seq(SpadProcess)
  /\ sockets \subseteq Socket
  /\ death_signal \in BOOLEAN
  /\ pc \in Range(Startup) \cup Ended

SmanInit ==
  /\ proc = [p \in Pid |-> Absent]
  /\ spad_process_list = <<>>
  /\ sockets = {}
  /\ death_signal = FALSE
  /\ pc = Startup[1]

Following == Startup[1 + CHOOSE i \in DOMAIN Startup : Startup[i] = pc]

(***************************************************************************)
(* fork_you and spawn_of_hell.                                             *)
(***************************************************************************)
Entry(p, r) == [proc_id |-> p, role |-> r, death_action |-> DeathAction[r]]

LinkedLast(e) == Append(spad_process_list, e)     \* mutant: appended
Linked(e) == <<e>> \o spad_process_list

fork_you(r, procs) ==
  \/ \E p \in Pid : /\ procs[p] = Absent
                    /\ proc' = [procs EXCEPT ![p] = [role |-> r, state |-> "running"]]
                    /\ spad_process_list' = Linked(Entry(p, r))
  \/ /\ MayFail
     /\ proc' = procs
     /\ spad_process_list' = Linked(Entry(-1, r))

(***************************************************************************)
(* main.                                                                   *)
(***************************************************************************)
(* fork_Axiom is the one caller that looks at a failed fork, and exits. *)
fork_Axiom ==
  /\ pc = "core"
  /\ fork_you("core", proc)
  /\ pc' = IF Head(spad_process_list').proc_id = -1 THEN "failed" ELSE Following
  /\ UNCHANGED <<sockets, death_signal>>

open_server ==
  /\ pc = "io"
  /\ \/ sockets' = sockets \cup {"SessionIO"} /\ pc' = Following
     \/ MayFail /\ sockets' = {} /\ pc' = "failed"
  /\ UNCHANGED <<proc, spad_process_list, death_signal>>

Start ==
  /\ pc \in Options \cup {"session", "relay"}
  /\ fork_you(pc, proc)
  /\ pc' = Following
  /\ UNCHANGED <<sockets, death_signal>>

Skip ==                        \* not asked for
  /\ pc \in Optional
  /\ pc' = Following
  /\ UNCHANGED <<proc, spad_process_list, sockets, death_signal>>

(* SIGTERM, SIGHUP or SIGQUIT: fatal until sman_catch_signals, which runs
   after the last fork; then death_handler sets a flag, and wait, interrupted
   under SA_RESTART, goes on waiting.                                      *)
DeathSignal ==
  /\ pc \notin Ended
  /\ \/ pc # "wait" /\ pc' = "killed" /\ UNCHANGED death_signal
     \/ pc = "wait" /\ death_signal' = TRUE /\ UNCHANGED pc
  /\ UNCHANGED <<proc, spad_process_list, sockets>>

(***************************************************************************)
(* monitor_children.  When sman ends, init reaps the zombies it leaves.    *)
(***************************************************************************)
find_child(p) ==
  LET at == {i \in DOMAIN spad_process_list : spad_process_list[i].proc_id = p}
  IN  IF at = {} THEN {}
      ELSE {spad_process_list[CHOOSE i \in at : \A j \in at : i <= j]}

(* kill_all_children: SIGTERM for every pid ever listed; the pid -1 stands
   for every process there is.                                             *)
Terminated(procs, list) ==
  LET ids == {list[i].proc_id : i \in DOMAIN list}
  IN  [p \in Pid |-> IF procs[p].state = "running" /\ ids \cap {p, -1} # {}
                     THEN [procs[p] EXCEPT !.state = "signalled"]
                     ELSE procs[p]]

SignalledButFirst(procs) ==                    \* mutant: starts at ->next
  Terminated(procs, Tail(spad_process_list))
Signalled(procs) == Terminated(procs, spad_process_list)

Reaped(procs) ==
  [p \in Pid |-> IF procs[p].state = "zombie" THEN Absent ELSE procs[p]]

LeaveTo(procs, next) ==
  /\ proc' = Reaped(Signalled(procs))
  /\ sockets' = {}
  /\ pc' = next
  /\ UNCHANGED <<spad_process_list, death_signal>>

Leave(procs) == LeaveTo(procs, "exited")

RelaunchedNot(e, procs) ==                     \* mutant: the case is missing
  proc' = procs /\ UNCHANGED spad_process_list
Relaunched(e, procs) == fork_you(e.role, procs)

MenuSocketKept == sockets                      \* mutant: the socket stays
clean_hypertex_socket == sockets \ {"MenuServer"}

Bury(p) ==
  LET procs == [proc EXCEPT ![p] = Absent]
      child == find_child(p)
      with(a) == \E e \in child : e.death_action = a
  IN  /\ pc = "wait" /\ proc[p].state = "zombie"
      /\ \/ with("Die") /\ Leave(procs)
         \/ /\ with("NadaDelShitsky") \/ child = {}
            /\ proc' = procs
            /\ UNCHANGED <<spad_process_list, sockets, death_signal, pc>>
         \/ /\ with("DoItAgain")
            /\ \E e \in child : Relaunched(e, procs)
            /\ UNCHANGED <<sockets, death_signal, pc>>
         \/ /\ with("CleanHypertexSocket")
            /\ proc' = procs
            /\ sockets' = clean_hypertex_socket
            /\ UNCHANGED <<spad_process_list, death_signal, pc>>

(* wait returns -1 only when no child is left, which AlwaysAChild excludes. *)
monitor_children == \E p \in Pid : Bury(p)

(***************************************************************************)
(* The children: they make their sockets when they get to it, and die by   *)
(* themselves or of SIGTERM.  The dead wait as zombies for sman, and are   *)
(* reaped by init when sman is gone.                                       *)
(***************************************************************************)
SocketOf(r) == CASE r = "core"     -> {"SpadServer"}
                 [] r = "session"  -> {"SessionServer"}
                 [] r = "hypertex" -> {"MenuServer"}
                 [] OTHER          -> {}

MakesSocket(p) ==
  /\ proc[p].state = "running"
  /\ ~(SocketOf(proc[p].role) \subseteq sockets)
  /\ sockets' = sockets \cup SocketOf(proc[p].role)
  /\ UNCHANGED <<proc, spad_process_list, death_signal, pc>>

DiesOfSignal(p) ==
  /\ proc[p].state = "signalled"
  /\ proc' = [proc EXCEPT ![p] = Absent]
  /\ UNCHANGED <<spad_process_list, sockets, death_signal, pc>>

Dies(p) ==
  /\ proc[p].state = "running"
  /\ DeathAction[proc[p].role] = "DoItAgain" => Len(spad_process_list) < MaxForks
  /\ proc' = [proc EXCEPT ![p] = IF pc \in Ended THEN Absent ELSE [@ EXCEPT !.state = "zombie"]]
  /\ UNCHANGED <<spad_process_list, sockets, death_signal, pc>>

SmanSteps == fork_Axiom \/ open_server \/ Start \/ Skip \/ monitor_children

SmanNext == \/ SmanSteps \/ DeathSignal
            \/ \E p \in Pid : MakesSocket(p) \/ DiesOfSignal(p) \/ Dies(p)
            \/ pc \in Ended /\ UNCHANGED smanVars

SmanSpec == SmanInit /\ [][SmanNext]_smanVars

(* sman is scheduled, and a process that has been sent SIGTERM dies of it;
   nobody owes a death or a socket.                                        *)
SmanFairSpec == /\ SmanSpec
                /\ WF_smanVars(SmanSteps)
                /\ \A p \in Pid : WF_smanVars(DiesOfSignal(p))

(***************************************************************************)
(* Properties                                                              *)
(***************************************************************************)

(* wait always has a child to wait for: the loop never spins on -1. *)
AlwaysAChild == pc = "wait" => \E p \in Pid : proc[p] # Absent

(* Although entries of buried children stay in the list and their pids are
   used again, find_child returns the entry of the process that has the pid
   now, so that the right death action is taken and the right program is
   started again; and there is always a child left to wait for.            *)
FindsTheChild ==
  /\ SmanTypeOK
  /\ AlwaysAChild
  /\ \A p \in Pid : proc[p] # Absent =>
       \E e \in find_child(p) : e.role = proc[p].role

(* HyperDoc's socket does not survive HyperDoc, once it is buried. *)
MenuSocketHasOwner ==
  pc = "wait" /\ "MenuServer" \in sockets =>
    \E p \in Pid : proc[p].role = "hypertex"

(* "When a process dies it kills off everything else": the death of Lisp, of
   the session manager or of the relay ends every process sman ever started,
   relaunched ones included, unless sman itself was killed while starting. *)
DeathOfOneEndsAll ==
  (\E p \in Pid : proc[p].state = "zombie" /\ DeathAction[proc[p].role] = "Die")
    ~> ((\A p \in Pid : proc[p] = Absent) \/ pc \in {"failed", "killed"})

(* "When a process dies start it up again": a graphics server that died is
   running again, unless OpenAxiom is ending or fork has failed.           *)
GraphicsComesBack ==
  (\E p \in Pid : proc[p] = [role |-> "graphics", state |-> "zombie"])
    ~> \/ \E p \in Pid : proc[p] = [role |-> "graphics", state |-> "running"]
       \/ pc \in Ended
       \/ Entry(-1, "graphics") \in Range(spad_process_list)
=============================================================================
