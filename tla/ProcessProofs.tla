--------------------------- MODULE ProcessProofs ----------------------------
(***************************************************************************)
(* Proofs about the processes, for any accounts and pids.                  *)
(***************************************************************************)
EXTENDS Processes, TLAPS

(* The types.                                                              *)

LEMMA OtherType == ASSUME NEW u \in Accounts, NEW s \in BOOLEAN PROVE Other(u, s) \in Process
BY DEF Other, Process, Stages

LEMMA NobodyType == Nobody \in Process /\ Nobody.at = "free" /\ Nobody.uid = Root
BY DEF Nobody, Other, Process, Stages, Accounts

LEMMA ChildType ==
    ASSUME NEW at \in Stages
    PROVE  Child(at) \in Process /\ Child(at).at = at /\ Child(at).uid = Root
BY DEF Child, Other, Process, Stages, Accounts, Inherited

LEMMA EndedType ==
    ASSUME TypeOK, NEW p \in Pids
    PROVE  /\ Ended(p) \in Process
           /\ p \in Children => Ended(p) = [procs[p] EXCEPT !.at = "dead"]
           /\ p \notin Children => Ended(p).at \in {"dead", "free"}
           /\ Ended(p).at \in {"dead", "free"}
<1>1. procs[p] \in Process
  BY DEF TypeOK
<1>2. CASE p \in Children
  BY <1>1, <1>2 DEF Ended, Process, Stages
<1>3. CASE p \notin Children
  BY <1>1, <1>3, NobodyType DEF Ended
<1> QED BY <1>2, <1>3

LEMMA TypeInit == Init => TypeOK
<1> SUFFICES ASSUME Init PROVE TypeOK
  OBVIOUS
<1>1. procs \in [Pids -> Process]
  <2>1. Other(Root, FALSE) \in Process
    BY OtherType DEF Accounts
  <2> QED BY <2>1, NobodyType DEF Init
<1> QED BY <1>1 DEF Init, TypeOK, Accounts

\* A stage of the session's child.
LEMMA GoesType ==
    ASSUME TypeOK, NEW from \in Stages, NEW to \in Stages, NEW new \in Process, Goes(from, to, new)
    PROVE  procs' \in [Pids -> Process]
BY DEF TypeOK, Goes, Process

LEMMA QuitsType ==
    ASSUME TypeOK, NEW from \in Stages, Quits(from)
    PROVE  procs' \in [Pids -> Process]
BY DEF TypeOK, Quits, Process, Stages

\* Every step keeps the types.
LEMMA TypeStep == TypeOK /\ [Next]_vars => TypeOK'
<1> SUFFICES ASSUME TypeOK, [Next]_vars PROVE TypeOK'
  OBVIOUS
<1>1. CASE Launch
  <2>1. Child("forked") \in Process
    BY ChildType DEF Stages, SessionStages
  <2> QED BY <1>1, <2>1 DEF Launch, TypeOK, Free, power, walk
<1>2. CASE SessionChild
  <2> SUFFICES procs' \in [Pids -> Process]
    BY <1>2 DEF SessionChild, TypeOK, power, walk
  <2> USE DEF Stages, SessionStages
  <2>1. sessionPid # NoPid => Me \in Process
    BY DEF TypeOK, Me
  <2>2. CASE ResetSignals
    <3>1. [Me EXCEPT !.has = @ \ {"handlers"}] \in Process
      BY <2>1, <2>2 DEF ResetSignals, Goes, Process
    <3> QED BY <2>2, <3>1, GoesType DEF ResetSignals
  <2>3. CASE Detach
    <3>1. [Me EXCEPT !.has = @ \ {"files", "environment"}] \in Process
      BY <2>1, <2>3 DEF Detach, Goes, Process
    <3> QED BY <2>3, <3>1, GoesType DEF Detach
  <2>4. CASE SetGid
    <3>1. Goes("clean", "gid", [Me EXCEPT !.gid = user]) => [Me EXCEPT !.gid = user] \in Process
      BY <2>1 DEF Goes, Process, TypeOK
    <3> QED BY <2>4, <3>1, GoesType, QuitsType DEF SetGid
  <2>5. CASE InitGroups
    <3>1. Goes("gid", "groups", [Me EXCEPT !.groups = user]) => [Me EXCEPT !.groups = user] \in Process
      BY <2>1 DEF Goes, Process, TypeOK
    <3> QED BY <2>5, <3>1, GoesType, QuitsType DEF InitGroups
  <2>6. CASE SetUid
    <3>1. Goes("groups", "uid", [Me EXCEPT !.uid = user]) => [Me EXCEPT !.uid = user] \in Process
      BY <2>1 DEF Goes, Process, TypeOK
    <3> QED BY <2>6, <3>1, GoesType, QuitsType DEF SetUid
  <2>7. CASE Exec
    <3>1. Goes("uid", "session", Me) => Me \in Process
      BY <2>1 DEF Goes
    <3> QED BY <2>7, <3>1, GoesType, QuitsType DEF Exec
  <2> QED BY <1>2, <2>2, <2>3, <2>4, <2>5, <2>6, <2>7 DEF SessionChild
<1>3. CASE Spawn
  <2>1. Child("power") \in Process
    BY ChildType DEF Stages, HelperStages
  <2> QED BY <1>3, <2>1 DEF Spawn, CloseWriteEnd, TypeOK, Free, walk
<1>4. CASE SpawnFails
  BY <1>4 DEF SpawnFails, TypeOK, walk
<1>5. CASE HelperChild
  <2>1. procs' \in [Pids -> Process] /\ fate' \in {"none", "ran", "failed", "killed"}
          /\ pipe' \in {"empty", "errno"}
    <3> USE DEF TypeOK, Process, Stages, HelperStages, HelperAt
    <3>1. CASE HelperExecs
      BY <3>1 DEF HelperExecs
    <3>2. CASE HelperFails
      BY <3>2 DEF HelperFails, TellErrno
    <3>3. CASE HelperLeaves
      BY <3>3 DEF HelperLeaves
    <3> QED BY <1>5, <3>1, <3>2, <3>3 DEF HelperChild
  <2> QED BY <1>5, <2>1 DEF HelperChild, TypeOK, walk
<1>6. CASE AwaitHelper
  <2>1. CASE ReadErrno
    BY <1>6, <2>1 DEF AwaitHelper, ReadErrno, TypeOK, walk
  <2>2. CASE ReadEnd
    BY <1>6, <2>2 DEF AwaitHelper, ReadEnd, TypeOK, walk
  <2>3. CASE WaitHelper
    BY <1>6, <2>3, NobodyType DEF AwaitHelper, WaitHelper, TypeOK, walk
  <2> QED BY <1>6, <2>1, <2>2, <2>3 DEF AwaitHelper
<1>7. CASE Reap
  <2>1. procs' \in [Pids -> Process]
    BY <1>7, NobodyType DEF Reap, TypeOK
  <2>2. pc' \in {"idle", "open"} /\ sessionPid' \in Pids \cup {NoPid}
    BY <1>7 DEF Reap, TypeOK
  <2> QED BY <1>7, <2>1, <2>2 DEF Reap, TypeOK, power
<1>8. CASE Purge
  <2>1. CASE Open
    <3>1. \A p \in Pids : [procs[p] EXCEPT !.young = FALSE] \in Process
      BY DEF TypeOK, Process
    <3>2. procs' \in [Pids -> Process]
      BY <2>1, <3>1 DEF Open, TypeOK
    <3> QED BY <1>8, <2>1, <3>2 DEF Purge, Open, TypeOK, power, walk
  <2>2. CASE Visit
    BY <1>8, <2>2 DEF Purge, Visit, Unread, TypeOK, power
  <2>3. CASE Strike
    <3>1. pos \in Pids
      BY <2>3 DEF Strike, TypeOK
    <3>2. Ended(pos) \in Process /\ procs[pos].uid \in Accounts
      BY <3>1, EndedType DEF TypeOK, Process
    <3> QED BY <1>8, <2>3, <3>1, <3>2 DEF Purge, Strike, TypeOK, power
  <2>4. CASE EndWalk
    BY <1>8, <2>4 DEF Purge, EndWalk, TypeOK, power
  <2>5. CASE Grace
    BY <1>8, <2>5 DEF Purge, Grace, TypeOK, power
  <2> QED BY <1>8, <2>1, <2>2, <2>3, <2>4, <2>5 DEF Purge
<1>9. CASE Dies
  <2>1. PICK p \in Pids : /\ procs' = [procs EXCEPT ![p] = Ended(p)]
                          /\ fate' \in {"killed", fate}
    BY <1>9 DEF Dies
  <2>2. procs' \in [Pids -> Process]
    BY <2>1, EndedType DEF TypeOK
  <2>3. fate' \in {"none", "ran", "failed", "killed"} /\ stale' \in BOOLEAN
    BY <1>9, <2>1 DEF Dies, Touched, TypeOK
  <2>4. UNCHANGED <<pc, sessionPid, user, helper, writeEnd, pipe, result, sig, pos, count, struck>>
    BY <1>9 DEF Dies, walk
  <2> QED BY <2>2, <2>3, <2>4 DEF TypeOK
<1>10. CASE Forks
  <2>1. PICK p \in Free, u \in Accounts, b \in BOOLEAN : procs' = [procs EXCEPT ![p] = Other(u, b)]
    BY <1>10 DEF Forks
  <2>2. procs' \in [Pids -> Process]
    BY <2>1, OtherType DEF TypeOK, Free
  <2>3. stale' \in BOOLEAN
    BY <1>10 DEF Forks, Touched, TypeOK
  <2>4. UNCHANGED <<pc, sessionPid, user, power, walk>>
    BY <1>10 DEF Forks
  <2> QED BY <2>2, <2>3, <2>4 DEF TypeOK, power, walk
<1>11. CASE ChangesOwner
  <2>1. PICK p \in Pids, u \in Accounts : procs' = [procs EXCEPT ![p] = Other(u, FALSE)]
    BY <1>11 DEF ChangesOwner
  <2>2. Other(u, FALSE) \in Process
    BY OtherType
  <2>3. procs' \in [Pids -> Process]
    BY <2>1, <2>2 DEF TypeOK
  <2>4. stale' \in BOOLEAN
    BY <1>11 DEF ChangesOwner, Touched, TypeOK
  <2>5. UNCHANGED <<pc, sessionPid, user, power, walk>>
    BY <1>11 DEF ChangesOwner
  <2> QED BY <2>3, <2>4, <2>5 DEF TypeOK, power, walk
<1>12. CASE UNCHANGED vars
  BY <1>12 DEF vars, power, walk, TypeOK
<1> QED BY <1>1, <1>2, <1>3, <1>4, <1>5, <1>6, <1>7, <1>8, <1>9, <1>10, <1>11, <1>12 DEF Next

\* The variables of launch.c, power.c, cleanup.c and of the table of processes
\* keep their types, whatever fails and whatever the other processes do.
THEOREM TypeCorrect == Spec => []TypeOK
<1> QED BY TypeInit, TypeStep, PTL DEF Spec
-----------------------------------------------------------------------------
(* The inductive invariant.                                                *)

Inv == TypeOK /\ IInv

USE DEF SessionStages, HelperStages

LEMMA InvInit == Init => IInv
<1> SUFFICES ASSUME Init PROVE IInv
  OBVIOUS
<1>1. \A p \in Pids : procs[p].at \in {"free", "other"}
  BY DEF Init, Other, Nobody
<1> QED BY <1>1 DEF Init, IInv, ChildInv, HelperInv, WalkInv, SessionKnown, PowerHonest, OnlyTheirs

LEMMA GoesGives ==
    ASSUME TypeOK, NEW from, NEW to, NEW new \in Process, Goes(from, to, new)
    PROVE  /\ sessionPid \in Pids /\ sessionPid # NoPid
           /\ procs[sessionPid].at = from
           /\ procs'[sessionPid] = [new EXCEPT !.at = to]
           /\ \A p \in Pids \ {sessionPid} : procs'[p] = procs[p]
BY DEF TypeOK, Goes

LEMMA QuitsGives ==
    ASSUME TypeOK, NEW from, Quits(from)
    PROVE  /\ sessionPid \in Pids /\ sessionPid # NoPid
           /\ procs[sessionPid].at = from
           /\ procs'[sessionPid] = [procs[sessionPid] EXCEPT !.at = "dead"]
           /\ \A p \in Pids \ {sessionPid} : procs'[p] = procs[p]
BY DEF TypeOK, Quits

\* What a stage of the child makes of it.
LEMMA StageGives ==
    ASSUME TypeOK, ChildInv, SessionChild
    PROVE  /\ sessionPid \in Pids /\ sessionPid # NoPid
           /\ procs[sessionPid].at \in SessionStages
           /\ procs'[sessionPid].at \in SessionStages \cup {"dead"}
           /\ \A p \in Pids \ {sessionPid} : procs'[p] = procs[p]
           /\ ChildInv'
<1>0. UNCHANGED <<sessionPid, user>>
  BY DEF SessionChild
<1>1. sessionPid # NoPid => Me \in Process
  BY DEF TypeOK, Me
<1> DEFINE m == procs[sessionPid]
           Ends == /\ procs[sessionPid].at \in SessionStages
                   /\ \A p \in Pids \ {sessionPid} : procs'[p] = procs[p]
                   /\ procs'[sessionPid] = [m EXCEPT !.at = "dead"]
<1>2. Ends /\ sessionPid \in Pids => ChildInv' /\ procs'[sessionPid].at = "dead"
  <2> SUFFICES ASSUME Ends, sessionPid \in Pids
               PROVE  ChildInv' /\ procs'[sessionPid].at = "dead"
    OBVIOUS
  <2>1. procs[sessionPid] \in Process
    BY DEF TypeOK
  <2>2. procs'[sessionPid].at = "dead"
    BY <2>1 DEF Process
  <2>3. ChildInv'
    BY <2>2, <1>0 DEF ChildInv
  <2> QED BY <2>2, <2>3
<1>3. CASE ResetSignals
  <2> DEFINE new == [Me EXCEPT !.has = @ \ {"handlers"}]
  <2>1. sessionPid # NoPid /\ Goes("forked", "reset", new)
    BY <1>3 DEF ResetSignals, Goes
  <2>2. new \in Process
    BY <1>1, <2>1 DEF Process
  <2>3. new.has = m.has \ {"handlers"}
    BY <1>1, <2>1 DEF Process, Me
  <2> HIDE DEF new
  <2>4. /\ sessionPid \in Pids /\ m.at = "forked"
        /\ procs'[sessionPid] = [new EXCEPT !.at = "reset"]
        /\ \A p \in Pids \ {sessionPid} : procs'[p] = procs[p]
    BY <2>1, <2>2, GoesGives
  <2>5. procs'[sessionPid].at = "reset" /\ procs'[sessionPid].has = new.has
    BY <2>2, <2>4 DEF Process
  <2> QED BY <1>0, <2>1, <2>3, <2>4, <2>5 DEF ChildInv
<1>4. CASE Detach
  <2> DEFINE new == [Me EXCEPT !.has = @ \ {"files", "environment"}]
  <2>1. sessionPid # NoPid /\ Goes("reset", "clean", new)
    BY <1>4 DEF Detach, Goes
  <2>2. new \in Process
    BY <1>1, <2>1 DEF Process
  <2>3. new.has = m.has \ {"files", "environment"} /\ m.has \subseteq Inherited
    BY <1>1, <2>1 DEF Process, Me
  <2> HIDE DEF new
  <2>4. /\ sessionPid \in Pids /\ m.at = "reset"
        /\ procs'[sessionPid] = [new EXCEPT !.at = "clean"]
        /\ \A p \in Pids \ {sessionPid} : procs'[p] = procs[p]
    BY <2>1, <2>2, GoesGives
  <2>5. procs'[sessionPid].at = "clean" /\ procs'[sessionPid].has = new.has
    BY <2>2, <2>4 DEF Process
  <2>6. "handlers" \notin m.has
    BY <2>1, <2>4 DEF ChildInv
  <2>7. new.has = {}
    BY <2>3, <2>6 DEF Inherited
  <2> QED BY <1>0, <2>1, <2>4, <2>5, <2>7 DEF ChildInv
<1>5. CASE SetGid
  <2>1. CASE Quits("clean")
    <3>1. sessionPid \in Pids /\ sessionPid # NoPid /\ Ends
      BY <2>1, QuitsGives
    <3> QED BY <3>1, <1>2
  <2> DEFINE new == [Me EXCEPT !.gid = user]
  <2>2. CASE Goes("clean", "gid", new)
    <3>1. sessionPid # NoPid
      BY <2>2 DEF Goes
    <3>2. new \in Process /\ new.has = m.has /\ new.gid = user
      BY <1>1, <3>1 DEF Process, Me, TypeOK
    <3> HIDE DEF new
    <3>3. /\ sessionPid \in Pids /\ m.at = "clean"
          /\ procs'[sessionPid] = [new EXCEPT !.at = "gid"]
          /\ \A p \in Pids \ {sessionPid} : procs'[p] = procs[p]
      BY <2>2, <3>2, GoesGives
    <3>4. /\ procs'[sessionPid].at = "gid" /\ procs'[sessionPid].has = m.has
          /\ procs'[sessionPid].gid = user
      BY <3>2, <3>3 DEF Process
    <3> QED BY <1>0, <3>1, <3>3, <3>4 DEF ChildInv
  <2> QED BY <1>5, <2>1, <2>2 DEF SetGid
<1>6. CASE InitGroups
  <2>1. CASE Quits("gid")
    <3>1. sessionPid \in Pids /\ sessionPid # NoPid /\ Ends
      BY <2>1, QuitsGives
    <3> QED BY <3>1, <1>2
  <2> DEFINE new == [Me EXCEPT !.groups = user]
  <2>2. CASE Goes("gid", "groups", new)
    <3>1. sessionPid # NoPid
      BY <2>2 DEF Goes
    <3>2. new \in Process /\ new.has = m.has /\ new.gid = m.gid /\ new.groups = user
      BY <1>1, <3>1 DEF Process, Me, TypeOK
    <3> HIDE DEF new
    <3>3. /\ sessionPid \in Pids /\ m.at = "gid"
          /\ procs'[sessionPid] = [new EXCEPT !.at = "groups"]
          /\ \A p \in Pids \ {sessionPid} : procs'[p] = procs[p]
      BY <2>2, <3>2, GoesGives
    <3>4. /\ procs'[sessionPid].at = "groups" /\ procs'[sessionPid].has = m.has
          /\ procs'[sessionPid].gid = m.gid /\ procs'[sessionPid].groups = user
      BY <3>2, <3>3 DEF Process
    <3> QED BY <1>0, <3>1, <3>3, <3>4 DEF ChildInv
  <2> QED BY <1>6, <2>1, <2>2 DEF InitGroups
<1>7. CASE SetUid
  <2>1. CASE Quits("groups")
    <3>1. sessionPid \in Pids /\ sessionPid # NoPid /\ Ends
      BY <2>1, QuitsGives
    <3> QED BY <3>1, <1>2
  <2> DEFINE new == [Me EXCEPT !.uid = user]
  <2>2. CASE Goes("groups", "uid", new)
    <3>1. sessionPid # NoPid
      BY <2>2 DEF Goes
    <3>2. /\ new \in Process /\ new.has = m.has
          /\ new.gid = m.gid /\ new.groups = m.groups /\ new.uid = user
      BY <1>1, <3>1 DEF Process, Me, TypeOK
    <3> HIDE DEF new
    <3>3. /\ sessionPid \in Pids /\ m.at = "groups"
          /\ procs'[sessionPid] = [new EXCEPT !.at = "uid"]
          /\ \A p \in Pids \ {sessionPid} : procs'[p] = procs[p]
      BY <2>2, <3>2, GoesGives
    <3>4. /\ procs'[sessionPid].at = "uid" /\ procs'[sessionPid].has = m.has
          /\ procs'[sessionPid].gid = m.gid /\ procs'[sessionPid].groups = m.groups
          /\ procs'[sessionPid].uid = user
      BY <3>2, <3>3 DEF Process
    <3> QED BY <1>0, <3>1, <3>3, <3>4 DEF ChildInv
  <2> QED BY <1>7, <2>1, <2>2 DEF SetUid
<1>8. CASE Exec
  <2>1. CASE Quits("uid")
    <3>1. sessionPid \in Pids /\ sessionPid # NoPid /\ Ends
      BY <2>1, QuitsGives
    <3> QED BY <3>1, <1>2
  <2>2. CASE Goes("uid", "session", Me)
    <3>1. sessionPid # NoPid /\ Me \in Process
      BY <1>1, <2>2 DEF Goes
    <3>3. /\ sessionPid \in Pids /\ m.at = "uid"
          /\ procs'[sessionPid] = [Me EXCEPT !.at = "session"]
          /\ \A p \in Pids \ {sessionPid} : procs'[p] = procs[p]
      BY <2>2, <3>1, GoesGives
    <3>4. /\ procs'[sessionPid].at = "session" /\ procs'[sessionPid].has = m.has
          /\ procs'[sessionPid].gid = m.gid /\ procs'[sessionPid].groups = m.groups
          /\ procs'[sessionPid].uid = m.uid
      BY <3>1, <3>3 DEF Process, Me
    <3> QED BY <1>0, <3>1, <3>3, <3>4 DEF ChildInv
  <2> QED BY <1>8, <2>1, <2>2 DEF Exec
<1> QED BY <1>3, <1>4, <1>5, <1>6, <1>7, <1>8 DEF SessionChild

\* What xlogin does to its own child, at any of its stages.
LEMMA ChildStep == Inv /\ SessionChild => IInv'
<1> SUFFICES ASSUME Inv, SessionChild PROVE IInv'
  OBVIOUS
<1> DEFINE s == sessionPid
<1>1. /\ s \in Pids /\ s # NoPid
      /\ procs'[s].at \in SessionStages \cup {"dead"}
      /\ \A p \in Pids \ {s} : procs'[p] = procs[p]
      /\ ChildInv'
  BY StageGives DEF Inv, IInv
<1>2. UNCHANGED <<pc, sessionPid, user, helper, writeEnd, pipe, result, fate, sig, pos,
                  count, struck, stale>>
  BY DEF SessionChild, power, walk
<1>3. helper = NoPid /\ pc = "idle"
  BY <1>1 DEF Inv, IInv, TypeOK, HelperInv, WalkInv
<1>5. SessionKnown'
  BY <1>1, <1>2 DEF Inv, IInv, SessionKnown
<1>6. HelperInv' /\ WalkInv'
  BY <1>2, <1>3 DEF Inv, IInv, HelperInv, WalkInv
<1>7. PowerHonest' /\ OnlyTheirs'
  BY <1>2 DEF Inv, IInv, PowerHonest, OnlyTheirs
<1> QED BY <1>1, <1>5, <1>6, <1>7 DEF IInv

\* xlogin starts a session: the child is the only process at a stage.
LEMMA LaunchStep == Inv /\ Launch => IInv'
<1> SUFFICES ASSUME Inv, Launch PROVE IInv'
  OBVIOUS
<1>1. PICK u \in Accounts, p \in Free :
         /\ pc = "idle" /\ sessionPid = NoPid
         /\ procs' = [procs EXCEPT ![p] = Child("forked")]
         /\ sessionPid' = p /\ user' = u
         /\ UNCHANGED <<pc, power, walk, stale>>
  BY DEF Launch
<1>2. p \in Pids /\ p # NoPid /\ procs'[p].at = "forked"
  BY <1>1, ChildType, PidsAssumption DEF Free, Inv, TypeOK, Stages
<1>3. \A q \in Pids \ {p} : procs'[q] = procs[q]
  BY <1>1 DEF Inv, TypeOK
<1>4. helper = NoPid
  BY <1>1 DEF Inv, IInv, HelperInv
<1>5. UNCHANGED <<pc, helper, writeEnd, pipe, result, fate, sig, pos, count, stale, struck>>
  BY <1>1 DEF power, walk
<1>6. ChildInv'
  BY <1>1, <1>2 DEF ChildInv
<1>7. SessionKnown'
  <2>1. \A q \in Pids : procs[q].at \notin SessionStages
    BY <1>1, PidsAssumption DEF Inv, IInv, SessionKnown
  <2> QED BY <1>1, <1>2, <1>3, <2>1 DEF SessionKnown
<1>8. HelperInv' /\ WalkInv' /\ PowerHonest' /\ OnlyTheirs'
  BY <1>1, <1>4, <1>5 DEF Inv, IInv, HelperInv, WalkInv, PowerHonest, OnlyTheirs
<1> QED BY <1>6, <1>7, <1>8 DEF IInv

\* xlogin starts the other child.
LEMMA SpawnStep == Inv /\ (Spawn \/ SpawnFails) => IInv'
<1> SUFFICES ASSUME Inv, Spawn \/ SpawnFails PROVE IInv'
  OBVIOUS
<1>0. helper = NoPid /\ sessionPid = NoPid /\ sessionPid' = NoPid /\ pc = "idle"
  BY DEF Inv, IInv, HelperInv, Spawn, SpawnFails
<1>1. CASE Spawn
  <2>1. PICK p \in Free :
           /\ procs' = [procs EXCEPT ![p] = Child("power")]
           /\ helper' = p /\ pipe' = "empty" /\ result' = "none" /\ fate' = "none"
           /\ pc' = "read" /\ UNCHANGED <<user, sig, pos, count, struck, stale>>
    BY <1>1 DEF Spawn, walk
  <2>2. p \in Pids /\ p # NoPid /\ procs'[p].at = "power"
    BY <2>1, ChildType, PidsAssumption DEF Free, Inv, TypeOK, Stages
  <2>3. \A q \in Pids \ {p} : procs'[q] = procs[q]
    BY <2>1 DEF Inv, TypeOK
  <2>4. HelperInv'
    BY <2>1, <2>2 DEF HelperInv
  <2>5. SessionKnown'
    BY <1>0, <2>2, <2>3 DEF Inv, IInv, SessionKnown
  <2>6. ChildInv' /\ WalkInv' /\ PowerHonest' /\ OnlyTheirs'
    BY <1>0, <2>1 DEF Inv, IInv, ChildInv, WalkInv, PowerHonest, OnlyTheirs
  <2> QED BY <2>4, <2>5, <2>6 DEF IInv
<1>2. CASE SpawnFails
  <2>1. /\ UNCHANGED <<procs, pc, sessionPid, user, helper, sig, pos, count, struck, stale>>
        /\ result' = "failed" /\ fate' = "none"
    BY <1>2 DEF SpawnFails, walk
  <2> QED BY <1>0, <2>1 DEF Inv, IInv, ChildInv, HelperInv, WalkInv, SessionKnown,
                            PowerHonest, OnlyTheirs
<1> QED BY <1>1, <1>2

\* The other child becomes shutdown(8), or says why it does not.
LEMMA HelperStep == Inv /\ HelperChild => IInv'
<1> SUFFICES ASSUME Inv, HelperChild PROVE IInv'
  OBVIOUS
<1>1. UNCHANGED <<pc, sessionPid, user, helper, result, sig, pos, count, struck, stale>>
  BY DEF HelperChild, walk
<1>2. helper \in Pids /\ helper # NoPid /\ procs[helper] \in Process
  BY DEF HelperChild, HelperExecs, HelperFails, HelperLeaves, HelperAt, Inv, TypeOK
<1>3. pc \in {"read", "wait"} /\ sessionPid = NoPid
  BY <1>2 DEF Inv, IInv, HelperInv, WalkInv, TypeOK
<1>4. /\ \A p \in Pids \ {helper} : procs'[p] = procs[p]
      /\ \/ procs'[helper].at = "shutdown" /\ procs[helper].at = "power"
                /\ fate' = "ran" /\ pipe' = pipe
         \/ procs'[helper].at = "leaving" /\ fate' = "failed" /\ pipe' = "errno"
         \/ procs'[helper].at = "dead" /\ procs[helper].at = "leaving"
                /\ fate' = fate /\ pipe' = pipe
  <2> USE <1>2 DEF Inv, TypeOK, Process, HelperAt
  <2>1. CASE HelperExecs
    BY <2>1 DEF HelperExecs
  <2>2. CASE HelperFails
    BY <2>2 DEF HelperFails, TellErrno
  <2>3. CASE HelperLeaves
    BY <2>3 DEF HelperLeaves
  <2> QED BY <2>1, <2>2, <2>3 DEF HelperChild
<1>5. HelperInv'
  BY <1>1, <1>2, <1>3, <1>4 DEF Inv, IInv, HelperInv
<1>6. SessionKnown' /\ ChildInv'
  BY <1>1, <1>3, <1>4 DEF Inv, IInv, SessionKnown, ChildInv
<1>7. WalkInv' /\ OnlyTheirs'
  BY <1>1, <1>3 DEF Inv, IInv, WalkInv, OnlyTheirs
<1>8. result' = "none"
  BY <1>1, <1>2 DEF Inv, IInv, HelperInv
<1> QED BY <1>5, <1>6, <1>7, <1>8 DEF IInv, PowerHonest

\* spawn() hears from it.
LEMMA AwaitStep == Inv /\ AwaitHelper => IInv'
<1> SUFFICES ASSUME Inv, AwaitHelper PROVE IInv'
  OBVIOUS
<1>1. UNCHANGED <<sessionPid, user, pipe, fate, sig, pos, count, struck, stale>>
  BY DEF AwaitHelper, walk
<1>2. pc \in {"read", "wait"} /\ helper # NoPid /\ helper \in Pids /\ sessionPid = NoPid
  BY DEF AwaitHelper, ReadErrno, ReadEnd, WaitHelper, Inv, IInv, TypeOK, HelperInv, WalkInv
<1>3. ChildInv' /\ OnlyTheirs'
  <2>1. pc' \in {"wait", "idle"}
    BY DEF AwaitHelper, ReadErrno, ReadEnd, WaitHelper
  <2> QED BY <1>1, <1>2, <2>1 DEF Inv, IInv, ChildInv, OnlyTheirs
<1>4. CASE ReadErrno
  BY <1>1, <1>2, <1>3, <1>4 DEF ReadErrno, Inv, IInv, HelperInv, WalkInv, SessionKnown, PowerHonest
<1>5. CASE ReadEnd
  <2>1. fate \in {"ran", "killed"}
    BY <1>2, <1>5 DEF ReadEnd, Inv, IInv, HelperInv, TypeOK
  <2> QED BY <1>1, <1>2, <1>3, <1>5, <2>1 DEF ReadEnd, Inv, IInv, HelperInv, WalkInv,
                                              SessionKnown, PowerHonest
<1>6. CASE WaitHelper
  <2>1. fate = "failed"
    BY <1>2, <1>6 DEF WaitHelper, Inv, IInv, HelperInv
  <2>2. \A p \in Pids : procs'[p] = procs[p] \/ procs'[p].at = "free"
    BY <1>2, <1>6, NobodyType DEF WaitHelper, Inv, TypeOK
  <2>3. SessionKnown'
    BY <1>1, <1>2, <2>2 DEF Inv, IInv, SessionKnown
  <2> QED BY <1>1, <1>2, <1>3, <1>6, <2>1, <2>3 DEF WaitHelper, IInv, HelperInv, WalkInv,
                                                    PowerHonest
<1> QED BY <1>4, <1>5, <1>6 DEF AwaitHelper

\* A dead session is noticed, and nobody else is taken for it.
LEMMA ReapStep == Inv /\ Reap => IInv'
<1> SUFFICES ASSUME Inv, Reap PROVE IInv'
  OBVIOUS
<1> DEFINE dead == {p \in Pids : procs[p].at = "dead"}
<1>1. /\ UNCHANGED <<user, helper, pipe, result, fate, stale>> /\ struck' = NoPid
      /\ pc = "idle" /\ helper = NoPid
  BY DEF Reap, power, Inv, IInv, HelperInv
<1>2. \A p \in Pids : /\ p \in dead => procs'[p].at = "free"
                      /\ p \notin dead => procs'[p] = procs[p]
  BY NobodyType DEF Reap
<1>3. CASE sessionPid \in dead
  <2>1. sessionPid' = NoPid /\ pc' \in {"idle", "open"} /\ (pc' = "open" => user # Root)
    BY <1>1, <1>3 DEF Reap, Ours, MayPurge
  <2>2. \A p \in Pids : procs'[p].at \notin SessionStages
    BY <1>2, <1>3 DEF Inv, IInv, SessionKnown
  <2> QED BY <1>1, <2>1, <2>2 DEF Inv, IInv, ChildInv, HelperInv, WalkInv, SessionKnown,
                                  PowerHonest, OnlyTheirs
<1>4. CASE sessionPid \notin dead
  <2>1. UNCHANGED <<sessionPid, pc>>
    BY <1>4 DEF Reap, Ours
  <2>2. sessionPid # NoPid => sessionPid \in Pids /\ procs'[sessionPid] = procs[sessionPid]
    BY <1>2, <1>4 DEF Inv, TypeOK
  <2>3. SessionKnown'
    BY <1>2, <2>1, <2>2 DEF Inv, IInv, SessionKnown
  <2>4. ChildInv'
    BY <1>1, <2>1, <2>2 DEF Inv, IInv, ChildInv
  <2> QED BY <1>1, <2>1, <2>3, <2>4 DEF Inv, IInv, HelperInv, WalkInv, PowerHonest, OnlyTheirs
<1> QED BY <1>3, <1>4

\* The walks over /proc.
LEMMA PurgeStep == Inv /\ Purge => IInv'
<1> SUFFICES ASSUME Inv, Purge PROVE IInv'
  OBVIOUS
<1>1. UNCHANGED <<sessionPid, user, helper, pipe, result, fate>>
  BY DEF Purge, power
<1>2. /\ pc \in {"open", "walk", "look", "grace"} /\ pc' \in {"idle", "open", "walk", "look", "grace"}
      /\ helper = NoPid /\ sessionPid = NoPid /\ user # Root
  BY DEF Purge, Open, Visit, Strike, EndWalk, Grace, Inv, IInv, HelperInv, WalkInv, TypeOK
<1>3. \A p \in Pids : procs[p].at \notin SessionStages
  BY <1>2, PidsAssumption DEF Inv, IInv, SessionKnown
<1>4. ChildInv' /\ HelperInv' /\ PowerHonest'
  BY <1>1, <1>2 DEF Inv, IInv, ChildInv, HelperInv, PowerHonest
<1>5. (\A p \in Pids : procs'[p].at \notin SessionStages) => SessionKnown'
  BY <1>1, <1>2 DEF SessionKnown
<1>6. CASE Open
  <2>1. \A p \in Pids : procs'[p].at = procs[p].at
    BY <1>6 DEF Open, Inv, TypeOK, Process
  <2>2. UNCHANGED <<struck, stale>> /\ pc' # "look"
    BY <1>6 DEF Open, walk
  <2> QED BY <1>1, <1>2, <1>3, <1>4, <1>5, <2>1, <2>2 DEF Inv, IInv, WalkInv, OnlyTheirs
<1>7. CASE Visit
  <2>1. UNCHANGED <<procs, struck>> /\ (pc' = "look" => procs[pos'].uid = user)
    BY <1>7 DEF Visit, Owner
  <2> QED BY <1>1, <1>2, <1>3, <1>4, <1>5, <2>1 DEF Inv, IInv, WalkInv, OnlyTheirs
<1>8. CASE Strike
  <2>1. pos \in Pids /\ pc' = "walk"
    BY <1>8 DEF Strike, Inv, TypeOK
  <2>2. \A p \in Pids : procs'[p] = procs[p] \/ procs'[p].at \in {"dead", "free"}
    BY <1>8, <2>1, EndedType DEF Strike, Inv, TypeOK
  <2>3. struck' = struck \/ struck' = user
    BY <1>8 DEF Strike, Inv, IInv, WalkInv
  <2>4. user \in Users
    BY <1>2 DEF Inv, TypeOK, Accounts
  <2>5. SessionKnown'
    BY <1>3, <1>5, <2>2
  <2>6. WalkInv' /\ OnlyTheirs'
    BY <1>1, <1>2, <2>1, <2>3, <2>4 DEF Inv, IInv, WalkInv, OnlyTheirs
  <2> QED BY <1>4, <2>5, <2>6 DEF IInv
<1>9. CASE EndWalk \/ Grace
  <2>1. UNCHANGED <<procs, struck>> /\ pc' # "look"
    BY <1>9 DEF EndWalk, Grace
  <2> QED BY <1>1, <1>2, <1>3, <1>4, <1>5, <2>1 DEF Inv, IInv, WalkInv, OnlyTheirs
<1> QED BY <1>6, <1>7, <1>8, <1>9 DEF Purge

\* A process ends, at whatever stage.
LEMMA DiesStep == Inv /\ Dies => IInv'
<1> SUFFICES ASSUME Inv, Dies PROVE IInv'
  OBVIOUS
<1>1. PICK p \in Pids :
         /\ procs[p].at \notin {"free", "dead"}
         /\ procs' = [procs EXCEPT ![p] = Ended(p)]
         /\ fate' = IF p = helper /\ procs[p].at = "power" THEN "killed" ELSE fate
         /\ stale' = (stale \/ (pc = "look" /\ p = pos))
         /\ UNCHANGED <<pc, sessionPid, user, helper, pipe, result, pos, struck>>
  BY DEF Dies, Touched, walk
<1>2. procs'[p] = Ended(p) /\ \A q \in Pids \ {p} : procs'[q] = procs[q]
  BY <1>1 DEF Inv, TypeOK
<1>3. p \in Children => procs'[p].at = "dead"
  BY <1>2, EndedType DEF Inv, TypeOK, Process
<1>4. procs'[p].at \in {"dead", "free"}
  BY <1>2, EndedType DEF Inv
<1>5. SessionKnown'
  <2>1. sessionPid # NoPid /\ sessionPid = p => p \in Children
    BY <1>1 DEF Inv, IInv, SessionKnown, Children
  <2>2. sessionPid # NoPid => sessionPid \in Pids
    BY DEF Inv, TypeOK
  <2> QED BY <1>1, <1>2, <1>3, <1>4, <2>1, <2>2 DEF Inv, IInv, SessionKnown
<1>6. ChildInv'
  <2>1. sessionPid # NoPid => sessionPid \in Pids
    BY DEF Inv, TypeOK
  <2>2. CASE sessionPid = p
    BY <1>1, <1>4, <1>5, <2>2 DEF ChildInv, SessionKnown
  <2>3. CASE sessionPid # p
    BY <1>1, <1>2, <2>1, <2>3 DEF Inv, IInv, ChildInv
  <2> QED BY <2>2, <2>3
<1>7. HelperInv'
  <2>1. helper # NoPid => helper \in Pids
    BY DEF Inv, TypeOK
  <2>2. CASE helper = p
    <3>1. helper # NoPid => p \in Children
      BY <1>1, <2>2 DEF Inv, IInv, HelperInv, Children
    <3> QED BY <1>1, <1>3, <2>2, <3>1 DEF Inv, IInv, HelperInv
  <2>3. CASE helper # p
    BY <1>1, <1>2, <2>1, <2>3 DEF Inv, IInv, HelperInv
  <2> QED BY <2>2, <2>3
<1>8. WalkInv'
  BY <1>1, <1>2 DEF Inv, IInv, WalkInv, TypeOK
<1>9. PowerHonest' /\ OnlyTheirs'
  <2>1. helper # NoPid => result = "none"
    BY DEF Inv, IInv, HelperInv
  <2>2. helper = NoPid => helper # p
    BY PidsAssumption
  <2> QED BY <1>1, <2>1, <2>2 DEF Inv, IInv, PowerHonest, OnlyTheirs
<1> QED BY <1>5, <1>6, <1>7, <1>8, <1>9 DEF IInv

\* Others come, and change their owner.
LEMMA OthersStep == Inv /\ (Forks \/ ChangesOwner) => IInv'
<1> SUFFICES ASSUME Inv, Forks \/ ChangesOwner PROVE IInv'
  OBVIOUS
<1>1. PICK p \in Pids :
         /\ procs[p].at \in {"free", "other"}
         /\ procs'[p].at = "other"
         /\ \A q \in Pids \ {p} : procs'[q] = procs[q]
         /\ stale' = (stale \/ (pc = "look" /\ p = pos))
         /\ UNCHANGED <<pc, sessionPid, user, helper, pipe, result, fate, pos, struck>>
  <2>1. \A u, b : Other(u, b).at = "other"
    BY DEF Other
  <2>2. CASE Forks
    <3>1. PICK p \in Free, u \in Accounts, b \in BOOLEAN : procs' = [procs EXCEPT ![p] = Other(u, b)]
             /\ Touched(p) /\ UNCHANGED <<pc, sessionPid, user, power, walk>>
      BY <2>2 DEF Forks
    <3> QED BY <2>1, <3>1 DEF Free, Touched, power, walk, Inv, TypeOK
  <2>3. CASE ChangesOwner
    <3>1. PICK p \in Pids, u \in Accounts : procs[p].at = "other"
             /\ procs' = [procs EXCEPT ![p] = Other(u, FALSE)]
             /\ Touched(p) /\ UNCHANGED <<pc, sessionPid, user, power, walk>>
      BY <2>3 DEF ChangesOwner
    <3> QED BY <2>1, <3>1 DEF Touched, power, walk, Inv, TypeOK
  <2> QED BY <2>2, <2>3
<1>2. /\ sessionPid # NoPid => sessionPid \in Pids /\ sessionPid # p
      /\ helper # NoPid => helper \in Pids /\ helper # p
  BY <1>1 DEF Inv, IInv, TypeOK, SessionKnown, HelperInv
<1>3. SessionKnown' /\ ChildInv'
  BY <1>1, <1>2 DEF Inv, IInv, SessionKnown, ChildInv
<1>4. HelperInv' /\ WalkInv'
  BY <1>1, <1>2 DEF Inv, IInv, HelperInv, WalkInv, TypeOK
<1>5. PowerHonest' /\ OnlyTheirs'
  BY <1>1 DEF Inv, IInv, PowerHonest, OnlyTheirs
<1> QED BY <1>3, <1>4, <1>5 DEF IInv

LEMMA InvStep == Inv /\ [Next]_vars => Inv'
<1> SUFFICES ASSUME Inv, [Next]_vars PROVE Inv'
  OBVIOUS
<1>1. TypeOK'
  BY TypeStep DEF Inv
<1>2. CASE UNCHANGED vars
  BY <1>2 DEF vars, power, walk, Inv, IInv, ChildInv, HelperInv, WalkInv, SessionKnown,
              PowerHonest, OnlyTheirs, TypeOK
<1>3. CASE Next
  BY <1>1, <1>3, ChildStep, LaunchStep, SpawnStep, HelperStep, AwaitStep, ReapStep,
     PurgeStep, DiesStep, OthersStep DEF Next, Inv
<1> QED BY <1>2, <1>3

\* What is known of each of the three things xlogin does with processes, at
\* every step of them, holds always.
THEOREM Invariance == Spec => []Inv
<1>1. Init => Inv
  BY TypeInit, InvInit DEF Inv
<1> QED BY <1>1, InvStep, PTL DEF Spec

\* Nothing of a session runs with anything of root's or of xlogin's.
THEOREM SessionIsTheUsers == Spec => []RunsAsUser
<1>1. Inv => RunsAsUser
  <2> SUFFICES ASSUME Inv, NEW p \in Pids, procs[p].at \in {"uid", "session"}
               PROVE  /\ procs[p].uid = user /\ procs[p].gid = user
                      /\ procs[p].groups = user /\ procs[p].has = {}
    BY DEF RunsAsUser
  <2>1. p = sessionPid /\ sessionPid # NoPid
    BY PidsAssumption DEF Inv, IInv, SessionKnown
  <2> QED BY <2>1 DEF Inv, IInv, ChildInv
<1> QED BY <1>1, Invariance, PTL

\* What the menu is told about shutdown(8) is so.
THEOREM PowerIsHonest == Spec => []PowerHonest
<1>1. Inv => PowerHonest
  BY DEF Inv, IInv
<1> QED BY <1>1, Invariance, PTL

\* mSessionPid is the pid of the session, and of nothing else.
THEOREM SessionIsKnown == Spec => []SessionKnown
<1>1. Inv => SessionKnown
  BY DEF Inv, IInv
<1> QED BY <1>1, Invariance, PTL

\* The walks reach the processes of the user whose session has ended.
THEOREM PurgeIsTheirs == Spec => []OnlyTheirs
<1>1. Inv => OnlyTheirs
  BY DEF Inv, IInv
<1> QED BY <1>1, Invariance, PTL
-----------------------------------------------------------------------------
(* What the walks leave.                                                   *)

LEMMA SparedArePids == Spared \subseteq Pids
BY DEF Spared

LEMMA SweepInit == Init => SweepInv
<1> SUFFICES ASSUME Init PROVE SweepInv
  OBVIOUS
<1>1. \A p \in Spared : procs[p] = Other(Root, FALSE)
  BY SparedArePids DEF Init
<1> QED BY <1>1 DEF Init, SweepInv, Other

\* No step touches init or xlogin but for marking it as not new.
LEMMA SparedStep ==
    ASSUME Inv, SweepInv, Next, NEW p \in Spared
    PROVE  procs'[p].at = "other" /\ procs'[p].uid = Root
<1>0. p \in Pids /\ procs[p].at = "other" /\ procs[p].uid = Root /\ p \notin Free
  BY SparedArePids DEF SweepInv, Free
<1>1. CASE Launch \/ Spawn \/ SpawnFails
  BY <1>0, <1>1 DEF Launch, Spawn, SpawnFails, Free, Inv, TypeOK
<1>2. CASE SessionChild
  <2>1. p # sessionPid /\ procs'[p] = procs[p]
    BY <1>0, <1>2, StageGives DEF Inv, IInv
  <2> QED BY <1>0, <2>1
<1>3. CASE HelperChild \/ AwaitHelper
  <2>1. helper # NoPid => helper # p
    BY <1>0 DEF Inv, IInv, HelperInv
  <2>2. procs'[p] = procs[p]
    BY <1>0, <1>3, <2>1
    DEF HelperChild, HelperExecs, HelperFails, HelperLeaves, HelperAt,
        AwaitHelper, ReadErrno, ReadEnd, WaitHelper, Inv, TypeOK
  <2> QED BY <1>0, <2>2
<1>4. CASE Reap
  BY <1>0, <1>4 DEF Reap
<1>5. CASE Purge
  <2>1. CASE Open
    BY <1>0, <2>1 DEF Open, Inv, TypeOK, Process
  <2>2. CASE Strike
    <3>1. pos # p
      BY <2>2 DEF Strike, SweepInv
    <3> QED BY <1>0, <2>2, <3>1 DEF Strike, Inv, TypeOK
  <2>3. CASE Visit \/ EndWalk \/ Grace
    BY <1>0, <2>3 DEF Visit, EndWalk, Grace
  <2> QED BY <1>5, <2>1, <2>2, <2>3 DEF Purge
<1>6. CASE Dies \/ Forks \/ ChangesOwner
  BY <1>0, <1>6 DEF Dies, Forks, ChangesOwner, Free, Inv, TypeOK
<1> QED BY <1>1, <1>2, <1>3, <1>4, <1>5, <1>6 DEF Next

\* While a walk is on, the world can only add processes that are young.
LEMMA WorldIsYoung ==
    ASSUME Inv, Dies \/ Forks \/ ChangesOwner
    PROVE  /\ UNCHANGED <<pc, user, pos, sig, count>>
           /\ \A p \in Pids : Left(p)' => Left(p)
<1>1. UNCHANGED <<pc, user, pos, sig, count>>
  BY DEF Dies, Forks, ChangesOwner, power, walk
<1>2. PICK q \in Pids :
         /\ \A p \in Pids \ {q} : procs'[p] = procs[p]
         /\ procs'[q].young \/ procs'[q].at # "other"
  <2>1. CASE Dies
    <3>1. PICK q \in Pids : procs' = [procs EXCEPT ![q] = Ended(q)]
      BY <2>1 DEF Dies
    <3>2. Ended(q).at # "other"
      BY EndedType DEF Inv
    <3> QED BY <3>1, <3>2 DEF Inv, TypeOK
  <2>2. CASE Forks \/ ChangesOwner
    <3>1. \A u, b : Other(u, b).young
      BY DEF Other
    <3>2. PICK q \in Pids, u \in Accounts, b \in BOOLEAN :
             procs' = [procs EXCEPT ![q] = Other(u, b)]
      BY <2>2 DEF Forks, ChangesOwner, Free
    <3> QED BY <3>1, <3>2 DEF Inv, TypeOK
  <2> QED BY <2>1, <2>2
<1> QED BY <1>1, <1>2 DEF Left

LEMMA SweepStep == Inv /\ SweepInv /\ [Next]_vars => SweepInv'
<1> SUFFICES ASSUME Inv, SweepInv, [Next]_vars PROVE SweepInv'
  OBVIOUS
<1>1. CASE UNCHANGED vars
  BY <1>1 DEF vars, walk, SweepInv, Left, Passed
<1> SUFFICES ASSUME Next PROVE SweepInv'
  BY <1>1
<1> DEFINE Walking == pc \in {"walk", "look"}
<1>2. \A p \in Spared : procs'[p].at = "other" /\ procs'[p].uid = Root
  BY SparedStep
<1>3. CASE Launch \/ SessionChild \/ Spawn \/ SpawnFails \/ HelperChild
              \/ AwaitHelper \/ Reap
  <2>1. ~Walking /\ pos = 0
    BY <1>3
    DEF Launch, SessionChild, ResetSignals, Detach, SetGid, InitGroups, SetUid,
        Exec, Goes, Quits, Spawn, SpawnFails, HelperChild, HelperExecs, HelperFails,
        HelperLeaves, HelperAt, AwaitHelper, ReadErrno, ReadEnd, WaitHelper, Reap,
        Inv, IInv, HelperInv, WalkInv, SweepInv
  <2>2. pos' = pos /\ (pc' = pc \/ pc' \in {"idle", "read", "wait", "open"})
    BY <1>3
    DEF Launch, SessionChild, Spawn, SpawnFails, HelperChild, AwaitHelper,
        ReadErrno, ReadEnd, WaitHelper, Reap, walk
  <2> QED BY <1>2, <2>1, <2>2 DEF SweepInv
<1>4. CASE Dies \/ Forks \/ ChangesOwner
  BY <1>2, <1>4, WorldIsYoung DEF SweepInv, Passed
<1>5. CASE Open
  <2>1. pos = 0 /\ pos' = 0 /\ pc' \in {"walk", "idle"}
    BY <1>5 DEF Open, walk, SweepInv
  <2>2. \A p \in Pids : ~Passed(p)'
    BY <2>1, PidsAssumption DEF Passed
  <2> QED BY <1>2, <2>1, <2>2 DEF SweepInv
<1>6. CASE Visit
  <2>1. PICK p \in Unread :
           /\ pc = "walk" /\ \A q \in Unread : p <= q
           /\ pos' = p
           /\ pc' = IF Owner(p) = user /\ p \notin Spared THEN "look" ELSE "walk"
           /\ UNCHANGED <<procs, sig, count>>
    BY <1>6 DEF Visit
  <2>2. user' = user /\ user # Root
    BY <1>6, <2>1 DEF Visit, Purge, Next, Launch, Spawn, SpawnFails, Inv, IInv, WalkInv,
                SessionChild, HelperChild, AwaitHelper, Reap, Dies, Forks, ChangesOwner
  <2>3. ASSUME NEW q \in Pids, Left(q)', Passed(q)'
        PROVE  sig' = "TERM" /\ count'
    <3>1. Left(q)
      BY <2>1, <2>2, <2>3 DEF Left
    <3>2. q \notin Free
      BY <3>1 DEF Left, Free
    <3>3. q # p
      <4> SUFFICES ASSUME q = p PROVE FALSE
        OBVIOUS
      <4>1. p \in Nat
        BY PidsAssumption
      <4>2. pc' = "walk"
        BY <2>1, <2>3, <4>1 DEF Passed
      <4>3. p \notin Spared
        BY <2>2, <3>1 DEF Left, SweepInv
      <4>4. Owner(p) = user
        BY <3>1 DEF Left, Owner
      <4> QED BY <2>1, <4>2, <4>3, <4>4
    <3>4. q < p
      BY <2>1, <2>3, <3>3 DEF Passed
    <3>5. q <= pos
      BY <2>1, <3>2, <3>4, PidsAssumption DEF Unread, Inv, TypeOK
    <3>6. Passed(q)
      BY <2>1, <3>5, PidsAssumption DEF Passed, Inv, TypeOK
    <3> QED BY <2>1, <3>1, <3>6 DEF SweepInv
  <2>4. pc' = "look" => pos' \notin Spared
    BY <2>1
  <2> QED BY <1>2, <2>1, <2>3, <2>4 DEF SweepInv, Spared
<1>7. CASE Strike
  <2>1. pc = "look" /\ pc' = "walk" /\ pos' = pos /\ sig' = sig /\ pos \in Pids
    BY <1>7 DEF Strike, Inv, TypeOK
  <2>2. user' = user
    BY <1>7, <2>1 DEF Strike, Purge, Next, Launch, Spawn, SpawnFails,
                SessionChild, HelperChild, AwaitHelper, Reap, Dies, Forks, ChangesOwner
  <2>3. count => count'
    BY <1>7 DEF Strike
  <2>4. \A q \in Pids \ {pos} : procs'[q] = procs[q]
    BY <1>7 DEF Strike, Inv, TypeOK
  <2>5. ASSUME NEW q \in Pids, Left(q)', Passed(q)'
        PROVE  sig' = "TERM" /\ count'
    <3>1. CASE q = pos
      <4>1. CASE pos \in Free
        <5>1. procs'[pos].at = "free"
          BY <1>7, <4>1 DEF Strike, Free
        <5> QED BY <2>5, <3>1, <5>1 DEF Left
      <4>2. CASE pos \notin Free /\ sig = "KILL"
        <5>1. procs'[pos] = Ended(pos)
          BY <1>7, <2>1, <4>2 DEF Strike, Inv, TypeOK
        <5>2. procs'[pos].at # "other"
          BY <2>1, <5>1, EndedType DEF Inv
        <5> QED BY <2>5, <3>1, <5>2 DEF Left
      <4>3. CASE pos \notin Free /\ sig # "KILL"
        BY <1>7, <2>1, <4>3 DEF Strike, Inv, TypeOK
      <4> QED BY <4>1, <4>2, <4>3
    <3>2. CASE q # pos
      <4>1. Left(q) /\ Passed(q)
        BY <2>1, <2>2, <2>4, <2>5, <3>2 DEF Left, Passed
      <4> QED BY <2>1, <2>3, <4>1 DEF SweepInv
    <3> QED BY <3>1, <3>2
  <2> QED BY <1>2, <2>1, <2>5 DEF SweepInv, Spared
<1>8. CASE EndWalk \/ Grace
  BY <1>2, <1>8 DEF EndWalk, Grace, SweepInv, Spared
<1> QED BY <1>3, <1>4, <1>5, <1>6, <1>7, <1>8 DEF Next, Purge

\* Whoever was the user's when the last walk began is gone when it ends: what
\* is left was started, or became the user's, while the walk went on.
THEOREM NobodyIsLeft == Spec => NoneLeft
<1> DEFINE Clean == pc = "walk" /\ pc' = "idle" =>
                      \A p \in Pids : procs[p].at = "other" /\ procs[p].uid = user
                                        => procs[p].young
<1>1. Inv /\ SweepInv /\ [Next]_vars => [Clean]_vars
  <2> SUFFICES ASSUME Inv, SweepInv, Next, pc = "walk", pc' = "idle",
                      NEW p \in Pids, Left(p)
               PROVE  FALSE
    BY DEF Left
  <2>1. EndWalk
    BY DEF Next, Launch, SessionChild, Spawn, SpawnFails, HelperChild, AwaitHelper,
           ReadErrno, ReadEnd, WaitHelper, Reap, Purge, Open, Visit, Strike, Grace,
           Dies, Forks, ChangesOwner
  <2>2. Unread = {} /\ ~(sig = "TERM" /\ count)
    BY <2>1 DEF EndWalk
  <2>3. p \notin Free
    BY DEF Left, Free
  <2>4. Passed(p)
    BY <2>2, <2>3, PidsAssumption DEF Unread, Passed, Inv, TypeOK
  <2> QED BY <2>2, <2>4 DEF SweepInv
<1>2. Spec => []SweepInv
  BY SweepInit, SweepStep, Invariance, PTL DEF Spec
<1> QED BY <1>1, <1>2, Invariance, PTL DEF Spec, NoneLeft
=============================================================================
