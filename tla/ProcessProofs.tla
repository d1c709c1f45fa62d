---------------------------- MODULE ProcessProofs ----------------------------
(***************************************************************************)
(* Theorems about the processes of Sman and ClefProcess.                   *)
(*                                                                         *)
(* For any set of pids, any options, and any number of forks: sman         *)
(* attributes a death to the child that died, always has a child to wait   *)
(* for, and HyperDoc's socket has an owner.  The list only grows at its    *)
(* front, and pids are used again, so it is the newest entry of a pid that *)
(* is the right one: that is Newest, which, with the core process staying  *)
(* until its death ends sman, is inductive.                                *)
(*                                                                         *)
(* However signals, the alarm, the editor and the two other processes take *)
(* turns, clef leaves the terminal as it was found and no file of the      *)
(* editor.  This is inductive as it stands: each step that ends clef puts  *)
(* both right itself, or is one that the property excuses, and nothing     *)
(* changes them afterwards.                                                *)
(***************************************************************************)
EXTENDS Sman, ClefProcess, SequenceTheorems, TLAPS

(* The first entry with the pid of a process is that of the process. *)
Newest ==
  \A p \in Pid : proc[p] # Absent =>
    \E i \in DOMAIN spad_process_list :
      /\ spad_process_list[i] = Entry(p, proc[p].role)
      /\ \A j \in 1..(i - 1) : spad_process_list[j].proc_id # p

(* As long as sman runs it has signalled nobody. *)
Unsignalled == pc \notin Ended => \A p \in Pid : proc[p].state # "signalled"

(* Once started, the core is there, alive or dead, until sman ends. *)
CoreStays == pc \notin Ended \cup {"core"} => \E p \in Pid : proc[p].role = "core"

(* The socket of HyperDoc was made by a HyperDoc that is not buried. *)
MenuOwned ==
  pc \notin Ended /\ "MenuServer" \in sockets =>
    \E p \in Pid : proc[p].role = "hypertex"

SmanInv == SmanTypeOK /\ Newest /\ Unsignalled /\ CoreStays /\ MenuOwned

-----------------------------------------------------------------------------
(* What main does next. *)
LEMMA FollowingStep ==
  ASSUME NEW k \in 1..7, pc = Startup[k]
  PROVE  Following = Startup[k + 1]
<1>1. \A i, j \in 1..8 : Startup[i] = Startup[j] => i = j
  BY DEF Startup
<1>2. DOMAIN Startup = 1..8
  BY DEF Startup
<1>3. (CHOOSE i \in DOMAIN Startup : Startup[i] = pc) = k
  BY <1>1, <1>2
<1>4. 1 + k = k + 1
  OBVIOUS
<1> QED
  BY <1>3, <1>4, Zenon DEF Following

(* The order in which main starts the processes. *)
LEMMA Follows ==
  /\ pc = "core" => Following = "io"
  /\ pc = "io" => Following = "session"
  /\ pc = "session" => Following = "window"
  /\ pc = "window" => Following = "hypertex"
  /\ pc = "hypertex" => Following = "graphics"
  /\ pc = "graphics" => Following = "relay"
  /\ pc = "relay" => Following = "wait"
<1>1. ASSUME NEW k \in 1..7 PROVE pc = Startup[k] => Following = Startup[k + 1]
  BY FollowingStep
<1> QED
  BY <1>1 DEF Startup

(* The places that main passes through. *)
LEMMA Places == Range(Startup) = Optional \cup {"core", "io", "session", "relay", "wait"}
BY DEF Range, Startup, Optional
(* Asked for a child whose entry is the newest with its pid, find_child
   returns that entry.                                                     *)
LEMMA FindsNewest ==
  ASSUME Newest, NEW p \in Pid, proc[p] # Absent,
         SmanTypeOK
  PROVE  find_child(p) = {Entry(p, proc[p].role)}
<1> DEFINE at == {i \in DOMAIN spad_process_list : spad_process_list[i].proc_id = p}
<1>1. PICK i \in DOMAIN spad_process_list :
        /\ spad_process_list[i] = Entry(p, proc[p].role)
        /\ \A j \in 1..(i - 1) : spad_process_list[j].proc_id # p
  BY DEF Newest
<1>2. DOMAIN spad_process_list \subseteq Nat \ {0}
  BY DEF SmanTypeOK
<1>3. i \in at
  BY <1>1 DEF Entry
<1>4. \A j \in at : i <= j
  BY <1>1, <1>2
<1>5. (CHOOSE k \in at : \A j \in at : k <= j) = i
  <2>1. \A k \in at : (\A j \in at : k <= j) => k = i
    BY <1>2, <1>3, <1>4
  <2> QED
    BY <1>3, <1>4, <2>1
<1> QED
  BY <1>1, <1>3, <1>5 DEF find_child

(* A child that is forked is listed first, with its own pid. *)
LEMMA ForkKeeps ==
  ASSUME SmanTypeOK, NEW r \in Role,
         NEW procs \in [Pid -> {Absent} \cup [role : Role,
                                             state : {"running", "signalled", "zombie"}]],
         \A p \in Pid : procs[p] \in {proc[p], Absent},
         Newest, fork_you(r, procs)
  PROVE  /\ proc' \in [Pid -> {Absent} \cup [role : Role,
                                             state : {"running", "signalled", "zombie"}]]
         /\ spad_process_list' \in Seq(SpadProcess)
         /\ spad_process_list' # <<>>
         /\ Newest'
         /\ \A p \in Pid : procs[p] # Absent => proc'[p] = procs[p]
         /\ \A p \in Pid : proc'[p].state # "signalled" \/ proc'[p] = procs[p]
         /\ \/ Head(spad_process_list').proc_id = -1
            \/ \E p \in Pid : proc'[p].role = r
<1>1. PICK id \in Pid \cup {-1} :
        /\ spad_process_list' = Linked(Entry(id, r))
        /\ \/ /\ id \in Pid /\ procs[id] = Absent
              /\ proc' = [procs EXCEPT ![id] = [role |-> r, state |-> "running"]]
           \/ id = -1 /\ proc' = procs
  BY DEF fork_you
<1>2. Entry(id, r) \in SpadProcess
  BY DEF Entry, SpadProcess, DeathAction, Range
<1>3. spad_process_list \in Seq(SpadProcess)
  BY DEF SmanTypeOK
<1>4. /\ spad_process_list' \in Seq(SpadProcess)
      /\ Len(spad_process_list') = Len(spad_process_list) + 1
      /\ spad_process_list'[1] = Entry(id, r)
      /\ \A i \in 1..Len(spad_process_list) : spad_process_list'[i + 1] = spad_process_list[i]
  BY <1>1, <1>2, <1>3 DEF Linked
<1>5. proc' \in [Pid -> {Absent} \cup [role : Role,
                                       state : {"running", "signalled", "zombie"}]]
  BY <1>1
<1>6. Newest'
  <2> SUFFICES ASSUME NEW p \in Pid, proc'[p] # Absent
               PROVE  \E i \in DOMAIN spad_process_list' :
                        /\ spad_process_list'[i] = Entry(p, proc'[p].role)
                        /\ \A j \in 1..(i - 1) : spad_process_list'[j].proc_id # p
    BY DEF Newest, Entry
  <2>1. CASE p = id
    <3>1. spad_process_list'[1] = Entry(p, proc'[p].role)
      BY <2>1, <1>1, <1>4, SmanAssumption
    <3> QED
      BY <3>1, <1>3, <1>4
  <2>2. CASE p # id
    <3>1. proc'[p] = proc[p] /\ proc[p] # Absent
      BY <2>2, <1>1
    <3>2. PICK i \in DOMAIN spad_process_list :
            /\ spad_process_list[i] = Entry(p, proc[p].role)
            /\ \A j \in 1..(i - 1) : spad_process_list[j].proc_id # p
      BY <3>1 DEF Newest
    <3>3. i \in 1..Len(spad_process_list) /\ i + 1 \in DOMAIN spad_process_list'
      BY <1>3, <1>4
    <3>4. spad_process_list'[i + 1] = Entry(p, proc'[p].role)
      BY <3>1, <3>2, <3>3, <1>4
    <3>5. ASSUME NEW j \in 1..i PROVE spad_process_list'[j].proc_id # p
      <4>1. CASE j = 1
        BY <4>1, <2>2, <1>4 DEF Entry
      <4>2. CASE j # 1
        <5>1. j - 1 \in 1..(i - 1) /\ j - 1 \in 1..Len(spad_process_list) /\ (j - 1) + 1 = j
          BY <4>2, <3>3
        <5> QED
          BY <5>1, <3>2, <1>4
      <4> QED
        BY <4>1, <4>2
    <3> QED
      BY <3>3, <3>4, <3>5
  <2> QED
    BY <2>1, <2>2
<1> QED
  BY <1>1, <1>4, <1>5, <1>6 DEF Entry, Absent

-----------------------------------------------------------------------------
(* Which children are buried how. *)
LEMMA Actions ==
  /\ \A r \in Role : DeathAction[r] \in {"Die", "NadaDelShitsky", "DoItAgain", "CleanHypertexSocket"}
  /\ \A r \in Role : DeathAction[r] = "CleanHypertexSocket" <=> r = "hypertex"
  /\ \A r \in Role : DeathAction[r] = "DoItAgain" <=> r = "graphics"
  /\ DeathAction["core"] = "Die"
BY DEF DeathAction, Role, Optional

(* The invariant holds at the start. *)
LEMMA InitInv == SmanInit => SmanInv
<1> SUFFICES ASSUME SmanInit PROVE SmanInv
  OBVIOUS
<1>1. pc = "core"
  BY DEF SmanInit, Startup
<1>2. proc \in [Pid -> {Absent}] /\ sockets = {} /\ death_signal = FALSE
  BY DEF SmanInit
<1>3. spad_process_list \in Seq(SpadProcess)
  BY DEF SmanInit
<1>4. SmanTypeOK
  BY <1>1, <1>2, <1>3, Places DEF SmanTypeOK
<1> QED
  BY <1>1, <1>4 DEF SmanInit, SmanInv, Newest, Unsignalled, CoreStays, MenuOwned, Absent

(* What a step that changes no process and not the list keeps. *)
LEMMA NewestKept ==
  ASSUME Newest, UNCHANGED spad_process_list,
         \A p \in Pid : proc'[p] # Absent => proc[p] # Absent /\ proc'[p].role = proc[p].role
  PROVE  Newest'
BY DEF Newest, Entry

(* Every step keeps the invariant. *)
LEMMA StepInv == SmanInv /\ [SmanNext]_smanVars => SmanInv'
<1> SUFFICES ASSUME SmanInv, [SmanNext]_smanVars PROVE SmanInv'
  OBVIOUS
<1> USE Places DEF SmanInv
<1>1. CASE fork_Axiom
  <2>1. "core" \in Role /\ pc = "core" /\ fork_you("core", proc) /\ UNCHANGED <<sockets, death_signal>>
    BY <1>1 DEF fork_Axiom, Role
  <2>2. proc \in [Pid -> {Absent} \cup [role : Role, state : {"running", "signalled", "zombie"}]]
    BY DEF SmanTypeOK
  <2>3. /\ proc' \in [Pid -> {Absent} \cup [role : Role, state : {"running", "signalled", "zombie"}]]
        /\ spad_process_list' \in Seq(SpadProcess) /\ Newest'
        /\ \A p \in Pid : proc[p] # Absent => proc'[p] = proc[p]
        /\ \A p \in Pid : proc'[p].state # "signalled" \/ proc'[p] = proc[p]
        /\ \/ Head(spad_process_list').proc_id = -1
           \/ \E p \in Pid : proc'[p].role = "core"
    BY <2>1, <2>2, ForkKeeps
  <2>4. \/ pc' = "failed" /\ Head(spad_process_list').proc_id = -1
        \/ pc' = "io" /\ Head(spad_process_list').proc_id # -1
    BY <1>1, <2>1, Follows DEF fork_Axiom
  <2>5. SmanTypeOK'
    BY <2>1, <2>3, <2>4 DEF SmanTypeOK, Ended
  <2> QED
    BY <2>1, <2>3, <2>4, <2>5 DEF Unsignalled, CoreStays, MenuOwned, Ended, Absent, SmanTypeOK
<1>2. CASE open_server
  <2>1. /\ pc = "io" /\ UNCHANGED <<proc, spad_process_list, death_signal>>
        /\ \/ sockets' = sockets \cup {"SessionIO"} /\ pc' = "session"
           \/ sockets' = {} /\ pc' = "failed"
    BY <1>2, Follows DEF open_server
  <2>2. SmanTypeOK'
    BY <2>1 DEF SmanTypeOK, Socket, Ended
  <2>3. Newest'
    BY <2>1, NewestKept
  <2> QED
    BY <2>1, <2>2, <2>3 DEF Unsignalled, CoreStays, MenuOwned, Ended
<1>3. CASE Start
  <2>1. /\ pc \in Role \ {"core"} /\ fork_you(pc, proc) /\ pc' = Following
        /\ UNCHANGED <<sockets, death_signal>>
    BY <1>3, SmanAssumption DEF Start, Role, Optional
  <2>2. proc \in [Pid -> {Absent} \cup [role : Role, state : {"running", "signalled", "zombie"}]]
    BY DEF SmanTypeOK
  <2>3. /\ proc' \in [Pid -> {Absent} \cup [role : Role, state : {"running", "signalled", "zombie"}]]
        /\ spad_process_list' \in Seq(SpadProcess) /\ Newest'
        /\ \A p \in Pid : proc[p] # Absent => proc'[p] = proc[p]
        /\ \A p \in Pid : proc'[p].state # "signalled" \/ proc'[p] = proc[p]
    BY <2>1, <2>2, ForkKeeps
  <2>4. pc' \in Range(Startup) \ {"core"} /\ pc \notin Ended
    BY <2>1, Follows DEF Role, Optional, Ended
  <2>5. SmanTypeOK'
    BY <2>1, <2>3, <2>4 DEF SmanTypeOK
  <2> QED
    BY <2>1, <2>3, <2>4, <2>5 DEF Unsignalled, CoreStays, MenuOwned, Ended, Absent, SmanTypeOK
<1>4. CASE Skip
  <2>1. /\ pc \in Optional /\ pc' = Following
        /\ UNCHANGED <<proc, spad_process_list, sockets, death_signal>>
    BY <1>4 DEF Skip
  <2>2. pc' \in Range(Startup) \ {"core"} /\ pc \notin Ended \cup {"core"}
    BY <2>1, Follows DEF Optional, Ended
  <2>3. SmanTypeOK' /\ Newest'
    BY <2>1, <2>2, NewestKept DEF SmanTypeOK
  <2> QED
    BY <2>1, <2>2, <2>3 DEF Unsignalled, CoreStays, MenuOwned, Ended
<1>5. CASE DeathSignal
  <2>1. SmanTypeOK' /\ Newest'
    BY <1>5, NewestKept DEF DeathSignal, SmanTypeOK, Ended
  <2> QED
    BY <1>5, <2>1 DEF DeathSignal, Unsignalled, CoreStays, MenuOwned, Ended
<1>6. ASSUME NEW p \in Pid, Bury(p)
      PROVE  SmanInv'
  <2> DEFINE procs == [proc EXCEPT ![p] = Absent]
  <2>1. pc = "wait" /\ proc[p].state = "zombie"
    BY <1>6 DEF Bury
  <2>2. proc[p].role \in Role /\ find_child(p) = {Entry(p, proc[p].role)}
    BY <2>1, FindsNewest DEF SmanTypeOK, Absent
  <2>3. procs \in [Pid -> {Absent} \cup [role : Role, state : {"running", "signalled", "zombie"}]]
    BY DEF SmanTypeOK
  <2>4. \A q \in Pid : procs[q] = IF q = p THEN Absent ELSE proc[q]
    BY DEF SmanTypeOK
  <2>5. CASE Leave(procs)
    <3>1. /\ proc' = Reaped(Signalled(procs)) /\ sockets' = {} /\ pc' = "exited"
          /\ UNCHANGED <<spad_process_list, death_signal>>
      BY <2>5 DEF Leave, LeaveTo
    <3>2. \A q \in Pid : /\ Signalled(procs)[q] \in {Absent} \cup [role : Role, state : {"running", "signalled", "zombie"}]
                         /\ procs[q] = Absent => Signalled(procs)[q] = Absent
                         /\ Signalled(procs)[q].role = procs[q].role
      BY <2>3 DEF Signalled, Terminated, Absent
    <3>3. \A q \in Pid : /\ proc'[q] \in {Absent} \cup [role : Role, state : {"running", "signalled", "zombie"}]
                         /\ proc'[q] # Absent => procs[q] # Absent /\ proc'[q].role = procs[q].role
      BY <3>1, <3>2 DEF Reaped
    <3>4. proc' \in [Pid -> {Absent} \cup [role : Role, state : {"running", "signalled", "zombie"}]]
      BY <3>1, <3>3 DEF Reaped
    <3>5. SmanTypeOK'
      BY <3>1, <3>4 DEF SmanTypeOK, Ended
    <3>6. Newest'
      BY <3>1, <3>3, <2>4, NewestKept
    <3> QED
      BY <3>1, <3>5, <3>6 DEF Unsignalled, CoreStays, MenuOwned, Ended
  <2>6. CASE /\ proc' = procs /\ UNCHANGED <<spad_process_list, death_signal, pc>>
             /\ sockets' \subseteq sockets
             /\ proc[p].role # "core"
             /\ proc[p].role = "hypertex" => "MenuServer" \notin sockets'
    <3>1. SmanTypeOK'
      BY <2>6, <2>3 DEF SmanTypeOK
    <3>2. Newest'
      BY <2>6, <2>4, NewestKept
    <3>3. Unsignalled'
      BY <2>6, <2>4 DEF Unsignalled, Absent
    <3>4. CoreStays'
      BY <2>6, <2>4 DEF CoreStays
    <3>5. MenuOwned'
      BY <2>6, <2>4 DEF MenuOwned
    <3> QED
      BY <3>1, <3>2, <3>3, <3>4, <3>5
  <2>7. CASE /\ proc[p].role = "graphics" /\ fork_you("graphics", procs)
             /\ UNCHANGED <<sockets, death_signal, pc>>
    <3>1. "graphics" \in Role
      BY DEF Role, Optional
    <3>2. /\ proc' \in [Pid -> {Absent} \cup [role : Role, state : {"running", "signalled", "zombie"}]]
          /\ spad_process_list' \in Seq(SpadProcess) /\ Newest'
          /\ \A q \in Pid : procs[q] # Absent => proc'[q] = procs[q]
          /\ \A q \in Pid : proc'[q].state # "signalled" \/ proc'[q] = procs[q]
      <4>1. \A q \in Pid : procs[q] \in {proc[q], Absent}
        BY <2>4
      <4> HIDE DEF procs
      <4> QED
        BY <4>1, <3>1, <2>3, <2>7, ForkKeeps
    <3>3. SmanTypeOK'
      BY <2>7, <3>2 DEF SmanTypeOK
    <3>4. Unsignalled'
      BY <2>7, <3>2, <2>4 DEF Unsignalled, Absent
    <3>5. CoreStays'
      BY <2>7, <3>2, <2>4 DEF CoreStays, Absent
    <3>6. MenuOwned'
      BY <2>7, <3>2, <2>4 DEF MenuOwned, Absent
    <3> QED
      BY <3>2, <3>3, <3>4, <3>5, <3>6
  <2>8. \/ DeathAction[proc[p].role] = "Die" /\ Leave(procs)
        \/ /\ DeathAction[proc[p].role] = "NadaDelShitsky"
           /\ proc' = procs /\ UNCHANGED <<spad_process_list, sockets, death_signal, pc>>
        \/ /\ DeathAction[proc[p].role] = "DoItAgain" /\ fork_you(proc[p].role, procs)
           /\ UNCHANGED <<sockets, death_signal, pc>>
        \/ /\ DeathAction[proc[p].role] = "CleanHypertexSocket"
           /\ proc' = procs /\ sockets' = clean_hypertex_socket
           /\ UNCHANGED <<spad_process_list, death_signal, pc>>
    <3>1. \A e \in find_child(p) : e.role = proc[p].role /\ e.death_action = DeathAction[proc[p].role]
      BY <2>2 DEF Entry
    <3>2. find_child(p) # {}
      BY <2>2
    <3> QED
      BY <1>6, <3>1, <3>2 DEF Bury, Relaunched
  <2> QED
    BY <2>2, <2>5, <2>6, <2>7, <2>8, Actions DEF clean_hypertex_socket
<1>7. ASSUME NEW p \in Pid, MakesSocket(p)
      PROVE  SmanInv'
  <2>1. SmanTypeOK'
    BY <1>7 DEF MakesSocket, SmanTypeOK, SocketOf, Socket
  <2>2. Newest'
    BY <1>7, NewestKept DEF MakesSocket
  <2>3. "MenuServer" \in sockets' => "MenuServer" \in sockets \/ proc[p].role = "hypertex"
    BY <1>7 DEF MakesSocket, SocketOf
  <2> QED
    BY <1>7, <2>1, <2>2, <2>3 DEF MakesSocket, Unsignalled, CoreStays, MenuOwned
<1>8. ASSUME NEW p \in Pid, DiesOfSignal(p)
      PROVE  SmanInv'
  <2>1. \A q \in Pid : proc'[q] = IF q = p THEN Absent ELSE proc[q]
    BY <1>8 DEF DiesOfSignal, SmanTypeOK
  <2>2. SmanTypeOK'
    BY <1>8 DEF DiesOfSignal, SmanTypeOK
  <2>3. Newest'
    BY <1>8, <2>1, NewestKept DEF DiesOfSignal
  <2>4. pc' \in Ended
    BY <1>8 DEF DiesOfSignal, Unsignalled
  <2> QED
    BY <2>2, <2>3, <2>4 DEF Unsignalled, CoreStays, MenuOwned
<1>9. ASSUME NEW p \in Pid, Dies(p)
      PROVE  SmanInv'
  <2>1. proc[p] \in [role : Role, state : {"running", "signalled", "zombie"}] /\ proc[p] # Absent
    BY <1>9 DEF Dies, SmanTypeOK, Absent
  <2>2. \A q \in Pid : proc'[q] = IF q = p
                                  THEN IF pc \in Ended THEN Absent ELSE [proc[p] EXCEPT !.state = "zombie"]
                                  ELSE proc[q]
    BY <1>9 DEF Dies, SmanTypeOK
  <2>3. SmanTypeOK'
    BY <1>9, <2>1 DEF Dies, SmanTypeOK
  <2>4. Newest'
    BY <1>9, <2>1, <2>2, NewestKept DEF Dies
  <2>5. pc \notin Ended => \A q \in Pid : proc'[q].role = proc[q].role
    BY <2>1, <2>2
  <2>6. Unsignalled'
    BY <1>9, <2>1, <2>2 DEF Unsignalled, Dies
  <2>7. CoreStays' /\ MenuOwned'
    BY <1>9, <2>5 DEF CoreStays, MenuOwned, Dies
  <2> QED
    BY <2>3, <2>4, <2>6, <2>7
<1>10. CASE UNCHANGED smanVars
  BY <1>10 DEF smanVars, SmanTypeOK, Newest, Unsignalled, CoreStays, MenuOwned
<1> QED
  BY <1>1, <1>2, <1>3, <1>4, <1>5, <1>6, <1>7, <1>8, <1>9, <1>10
     DEF SmanNext, SmanSteps, monitor_children

(* The strengthened invariant holds of every behaviour of sman. *)
THEOREM ChildInvariant == SmanSpec => []SmanInv
BY InitInv, StepInv, PTL DEF SmanSpec

(* A death is attributed to the child that died, although its pid has been
   used before, and wait always has a child left (sman.c monitor_children,
   find_child).                                                            *)
THEOREM ChildAlwaysFound == SmanSpec => []FindsTheChild
<1>1. SmanInv => FindsTheChild
  <2> SUFFICES ASSUME SmanInv PROVE FindsTheChild
    OBVIOUS
  <2>1. AlwaysAChild
    BY DEF SmanInv, CoreStays, AlwaysAChild, Ended, Absent
  <2>2. ASSUME NEW p \in Pid, proc[p] # Absent
        PROVE  \E e \in find_child(p) : e.role = proc[p].role
    <3>1. find_child(p) = {Entry(p, proc[p].role)}
      BY <2>2, FindsNewest DEF SmanInv
    <3> QED
      BY <3>1 DEF Entry
  <2> QED
    BY <2>1, <2>2 DEF FindsTheChild, SmanInv
<1> QED
  BY <1>1, ChildInvariant, PTL

(* The socket of HyperDoc goes with it (sman.c clean_hypertex_socket). *)
THEOREM MenuSocketAlwaysOwned == SmanSpec => []MenuSocketHasOwner
<1>1. SmanInv => MenuSocketHasOwner
  BY DEF SmanInv, MenuOwned, MenuSocketHasOwner, Ended
<1> QED
  BY <1>1, ChildInvariant, PTL

-----------------------------------------------------------------------------
(* clef. *)

ProcessSpec == ProcessInit /\ [][ProcessNext]_processVars

\* What the steps of clef leave of its variables is of the types it was.
LEMMA ProcessTypes == ProcessTypeOK /\ [ProcessNext]_processVars => ProcessTypeOK'
<1> SUFFICES ASSUME ProcessTypeOK, [ProcessNext]_processVars
             PROVE  ProcessTypeOK'
    OBVIOUS
<1>1. pending' \subseteq Signals
    <2>1. pending \subseteq Signals
        BY DEF ProcessTypeOK
    <2>2. \/ pending' \subseteq pending
          \/ \E sig \in Signals : pending' = pending \union {sig}
        <3>1. ASSUME NEW sig \in Signals, Raise(sig) \/ Handle(sig)
              PROVE  pending' \subseteq pending \/ pending' = pending \union {sig}
            BY <3>1 DEF Raise, Handle
        <3>2. CASE ChildDies \/ EditorEnds
            <4>1. "CHLD" \in Signals
                BY DEF Signals
            <4> QED BY <3>2, <4>1 DEF ChildDies, EditorEnds
        <3>3. CASE HangupHandler \/ TerminateHandler \/ InterruptHandler \/ ChildHandler
            <4>1. \E sig \in Signals : Handle(sig)
                BY <3>3 DEF HangupHandler, TerminateHandler, InterruptHandler, ChildHandler, Signals
            <4> QED BY <3>1, <4>1
        <3>4. CASE Fork \/ InitParent \/ ParentDies
            BY <3>4 DEF Fork, InitParent, ParentDies
        <3>5. CASE AlarmHandler \/ UNCHANGED processVars
            BY <3>5 DEF AlarmHandler, processVars
        <3>6. CASE EditorKey \/ EditorWaited \/ CompletionFatal
            BY <3>6 DEF EditorKey, EditorWaited, CompletionFatal
        <3> QED BY <3>1, <3>2, <3>3, <3>4, <3>5, <3>6 DEF ProcessNext
    <2> QED BY <2>1, <2>2
<1>2. fault' \subseteq ProcessTroubles
    <2>1. fault \subseteq ProcessTroubles
        BY DEF ProcessTypeOK
    <2>2. \E more \in SUBSET ProcessTroubles : fault' = fault \union more
        <3>1. /\ NoSettings \in SUBSET ProcessTroubles /\ Group \in SUBSET ProcessTroubles
              /\ NoSettings \union Group \in SUBSET ProcessTroubles
              /\ {} \in SUBSET ProcessTroubles /\ {"no cleanup"} \in SUBSET ProcessTroubles
            BY DEF NoSettings, Group, ProcessTroubles
        <3>2. CASE HangupHandler
            BY <3>1, <3>2 DEF HangupHandler
        <3>3. CASE TerminateHandler
            <4>1. fault' = fault \union (NoSettings \union Group)
                BY <3>3 DEF TerminateHandler
            <4> QED BY <3>1, <4>1
        <3>4. CASE InterruptHandler
            BY <3>1, <3>4 DEF InterruptHandler
        <3>5. CASE ChildHandler
            <4>1. fault' = fault \union NoSettings \/ fault' = fault
                BY <3>5 DEF ChildHandler
            <4> QED BY <3>1, <4>1
        <3>6. CASE CompletionFatal
            BY <3>1, <3>6 DEF CompletionFatal
        <3>7. CASE fault' = fault
            BY <3>1, <3>7
        <3>8. ASSUME NEW sig \in Signals, Raise(sig)
              PROVE  fault' = fault
            BY <3>8 DEF Raise
        <3>9. Fork \/ InitParent \/ ChildDies \/ ParentDies \/ EditorEnds => fault' = fault
            BY DEF Fork, InitParent, ChildDies, ParentDies, EditorEnds
        <3>10. AlarmHandler \/ EditorKey \/ EditorWaited \/ UNCHANGED processVars => fault' = fault
            BY DEF AlarmHandler, EditorKey, EditorWaited, processVars
        <3> QED BY <3>2, <3>3, <3>4, <3>5, <3>6, <3>7, <3>8, <3>9, <3>10 DEF ProcessNext
    <2> QED BY <2>1, <2>2
<1> DEFINE Others == /\ stage' \in {"caught", "forked", "loop", "waiting", "gone"}
                     /\ child' \in {"none", "up", "told", "dead", "reaped"}
                     /\ parent' \in {"up", "dead"} /\ editor' \in {"none", "up", "dead"}
                     /\ term' \in {"found", "canon", "unset"} /\ file' \in BOOLEAN
                     /\ onChld' \in {"exit", "null"} /\ armed' \in BOOLEAN
<1>3. Others
    <2> USE DEF ProcessTypeOK
    <2>1. CASE Fork
        BY <2>1 DEF Fork
    <2>2. CASE InitParent
        BY <2>2 DEF InitParent
    <2>3. ASSUME NEW sig \in Signals, Raise(sig)
          PROVE  Others
        BY <2>3 DEF Raise
    <2>4. CASE ChildDies
        BY <2>4 DEF ChildDies
    <2>5. CASE ParentDies
        BY <2>5 DEF ParentDies
    <2>6. CASE EditorEnds
        BY <2>6 DEF EditorEnds
    <2>7. CASE HangupHandler
        BY <2>7 DEF HangupHandler, EndClef, Settings
    <2>8. CASE TerminateHandler
        BY <2>8 DEF TerminateHandler, EndClef, Settings, Tell
    <2>9. CASE InterruptHandler
        BY <2>9 DEF InterruptHandler, Tell
    <2>10. CASE ChildHandler
        BY <2>10 DEF ChildHandler, EndClef, Settings
    <2>11. CASE AlarmHandler
        BY <2>11 DEF AlarmHandler, EndClef, Settings, processVars
    <2>12. CASE EditorKey
        BY <2>12 DEF EditorKey
    <2>13. CASE EditorWaited
        BY <2>13 DEF EditorWaited
    <2>14. CASE CompletionFatal
        BY <2>14 DEF CompletionFatal
    <2>15. CASE UNCHANGED processVars
        BY <2>15 DEF processVars
    <2> HIDE DEF Others
    <2> QED BY <2>1, <2>2, <2>3, <2>4, <2>5, <2>6, <2>7, <2>8,
               <2>9, <2>10, <2>11, <2>12, <2>13, <2>14, <2>15 DEF ProcessNext
<1> QED BY <1>1, <1>2, <1>3 DEF ProcessTypeOK

\* LeavesNothingBehind: however the signals, the alarm, the editor and the two
\* other processes take turns, the end of clef leaves the terminal as it was
\* found and no file of the editor (edible.c handlers).
THEOREM NothingIsLeftBehind == ProcessSpec => []LeavesNothingBehind
<1> DEFINE Clean == stage = "gone" /\ fault = {} =>
                      ~file /\ (term = "found" \/ parent = "dead")
<1>1. ProcessInit => LeavesNothingBehind
    BY DEF ProcessInit, LeavesNothingBehind, ProcessTypeOK
<1>2. LeavesNothingBehind /\ [ProcessNext]_processVars => LeavesNothingBehind'
    <2> SUFFICES ASSUME LeavesNothingBehind, [ProcessNext]_processVars
                 PROVE  LeavesNothingBehind'
        OBVIOUS
    <2>1. ProcessTypeOK'
        BY ProcessTypes DEF LeavesNothingBehind
    <2> SUFFICES Clean'
        BY <2>1 DEF LeavesNothingBehind
    <2>2. Clean /\ parent \in {"up", "dead"}
        BY DEF LeavesNothingBehind, ProcessTypeOK
    \* A handler that knows the settings puts them back; one that does not is
    \* a fault.
    <2>3. ASSUME EndClef(TRUE) \/ EndClef(parent = "up"),
                 fault' = {} => Settings = "found"
          PROVE  Clean'
        BY <2>2, <2>3 DEF EndClef
    <2>4. NoSettings = {} => Settings = "found"
        BY DEF NoSettings, Settings
    <2>5. CASE HangupHandler
        BY <2>3, <2>4, <2>5 DEF HangupHandler
    <2>6. CASE TerminateHandler
        BY <2>3, <2>4, <2>6 DEF TerminateHandler
    <2>7. CASE ChildHandler
        <3>1. CASE onChld = "exit"
            BY <2>3, <2>4, <2>7, <3>1 DEF ChildHandler
        <3>2. CASE onChld # "exit"
            BY <2>2, <2>7, <3>2 DEF ChildHandler
        <3> QED BY <3>1, <3>2
    <2>8. CASE AlarmHandler
        <3>1. CASE parent = "up"
            BY <2>2, <2>8, <3>1 DEF AlarmHandler, processVars
        <3>2. CASE parent # "up"
            <4>1. Settings = "found"
                BY <2>8 DEF AlarmHandler, Settings
            <4> QED BY <2>3, <2>8, <3>2, <4>1 DEF AlarmHandler
        <3> QED BY <3>1, <3>2
    <2>9. CASE Fork \/ InitParent \/ EditorKey \/ EditorWaited
        BY <2>9 DEF Fork, InitParent, EditorKey, EditorWaited
    <2>10. CASE CompletionFatal
        BY <2>10 DEF CompletionFatal
    \* The others leave stage, file, term and fault alone.
    <2>11. CASE InterruptHandler
        BY <2>2, <2>11 DEF InterruptHandler
    <2>12. ASSUME NEW sig \in Signals, Raise(sig)
           PROVE  Clean'
        BY <2>2, <2>12 DEF Raise
    <2>13. CASE ChildDies \/ EditorEnds
        BY <2>2, <2>13 DEF ChildDies, EditorEnds
    <2>14. CASE ParentDies
        BY <2>2, <2>14 DEF ParentDies
    <2>15. CASE UNCHANGED processVars
        BY <2>2, <2>15 DEF processVars
    <2> HIDE DEF Clean
    <2> QED BY <2>5, <2>6, <2>7, <2>8, <2>9, <2>10, <2>11, <2>12, <2>13, <2>14, <2>15
            DEF ProcessNext
<1> QED BY <1>1, <1>2, PTL DEF ProcessSpec
=============================================================================
