---------------------------- MODULE RefreshProofs ----------------------------
(***************************************************************************)
(* Proofs about Refresh, for any guest ids, processes, settings and number *)
(* of backups.                                                             *)
(***************************************************************************)
EXTENDS Refresh, TLAPS

\* Turning onboot off changes nothing else of a guest.
LEMMA QuietType ==
  ASSUME NEW g \in Guest
  PROVE  /\ Quiet(g) \in Guest
         /\ Quiet(g).conf = g.conf
         /\ Quiet(g).disk = g.disk
         /\ Quiet(g).onboot = FALSE
BY DEF Guest, Quiet

\* What Damaged leaves is a guest.
LEMMA DamagedType ==
  ASSUME TypeOK, NEW v \in VMID, NEW d \in Damages
  PROVE  Damaged(v, d) \in Guest
BY DEF TypeOK, Damages, Damaged, Guest, NoGuest, TornGuest, Torn

\* A dead process forgets within the types of its memory.
LEMMA ForgetType ==
  ASSUME TypeOK, NEW P, Forget(P)
  PROVE  /\ pc' \in [Proc -> Stages]
         /\ cfg' \in [Proc -> Configs]
         /\ mine' \in [Proc -> BOOLEAN]
         /\ found' \in [Proc -> SUBSET Archive]
         /\ backups' \in [Proc -> SUBSET Archive]
         /\ todo' \in [Proc -> SUBSET Archive]
         /\ orphans' \in [Proc -> SUBSET VMID]
         /\ restored' \in [Proc -> SUBSET VMID]
         /\ failed' \in [Proc -> SUBSET VMID]
         /\ raised' \in [Proc -> BOOLEAN]
<1>1. AnyConfig \in Configs
  BY ConfigsAssumption DEF AnyConfig
<1>2. QED
  BY <1>1 DEF TypeOK, Forget, Stages

\* So do the guests a dying process was working on.
LEMMA InterruptType ==
  ASSUME TypeOK, NEW P \in SUBSET Proc, Interrupt(P)
  PROVE  guest' \in [VMID -> Guest]
<1>1. PICK d \in [UNION {InFlight(p) : p \in P} -> Damages] :
        guest' = [v \in VMID |-> IF v \in DOMAIN d THEN Damaged(v, d[v]) ELSE guest[v]]
  BY DEF Interrupt
<1>2. ASSUME NEW v \in VMID
      PROVE  (IF v \in DOMAIN d THEN Damaged(v, d[v]) ELSE guest[v]) \in Guest
  <2>1. CASE v \in DOMAIN d
    BY <2>1, DamagedType
  <2>2. CASE v \notin DOMAIN d
    BY <2>2 DEF TypeOK
  <2>3. QED
    BY <2>1, <2>2
<1>3. QED
  BY <1>1, <1>2

\* A node that was never replicated to is well typed.
LEMMA TypeInit == Init => TypeOK
<1> SUFFICES ASSUME Init PROVE TypeOK
  OBVIOUS
<1>1. AnyConfig \in Configs
  BY ConfigsAssumption DEF AnyConfig
<1>2. NoGuest \in Guest
  BY StampAssumption DEF Guest, NoGuest, Torn
<1>3. 0 \in 0..MaxStamp
  BY StampAssumption
<1>4. QED
  BY <1>1, <1>2, <1>3 DEF Init, NoRun, TypeOK, Stages

\* Every step of a run, of a fault and of the world around keeps every type.
LEMMA TypeStep ==
  ASSUME TypeOK, [Next]_vars
  PROVE  TypeOK'
<1> USE DEF TypeOK
<1>1. ASSUME NEW p \in Proc, Advance(p)
      PROVE  TypeOK'
  <2>1. CASE Mount(p)
    BY <2>1 DEF Mount, Goto, Stages, result
  <2>2. CASE Scan(p)
    BY <2>2 DEF Scan, Goto, Stages, machine, result, Latest, Visible
  <2>3. ASSUME NEW a \in Archive, ReadConfig(p, a, a \in Visible)
        PROVE  TypeOK'
    BY <2>3 DEF ReadConfig, machine, result
  <2>4. CASE NothingFound(p)
    BY <2>4 DEF NothingFound, Goto, Stages, machine, result
  <2>5. CASE Plan(p)
    BY <2>5 DEF Plan, Goto, Stages, machine, result, Orphans
  <2>6. ASSUME NEW v \in VMID, DestroyOrphan(p, v)
        PROVE  TypeOK'
    BY <2>6 DEF DestroyOrphan, Guest, NoGuest, Torn
  <2>7. CASE OrphansDone(p)
    BY <2>7 DEF OrphansDone, Goto, Stages, machine, result
  <2>8. ASSUME NEW a \in Archive, RestoreGuest(p, a)
        PROVE  TypeOK'
    <3>1. a.vmid \in VMID /\ Restored(a) \in Guest
      BY StampAssumption DEF Archive, Restored, Guest
    <3>2. guest' \in [VMID -> Guest] /\ pc' \in [Proc -> Stages]
      BY <2>8, <3>1 DEF RestoreGuest, Goto, Stages
    <3>3. QED
      BY <2>8, <3>2 DEF RestoreGuest, result
  <2>9. ASSUME NEW a \in Archive, RestoreNothing(p, a)
        PROVE  TypeOK'
    BY <2>9 DEF RestoreNothing, machine, Archive
  <2>10. ASSUME NEW a \in Archive, RestoreDry(p, a)
         PROVE  TypeOK'
    BY <2>10 DEF RestoreDry, machine, Archive
  <2>11. ASSUME NEW a \in Archive, SetOnboot(p, a)
         PROVE  TypeOK'
    <3>1. a.vmid \in VMID
      BY DEF Archive
    <3>2. Quiet(guest[a.vmid]) \in Guest
      BY <3>1, QuietType
    <3>3. guest' \in [VMID -> Guest]
      BY <2>11, <3>1, <3>2 DEF SetOnboot
    <3>4. QED
      BY <2>11, <3>1, <3>3 DEF SetOnboot, Goto, Stages
  <2>12. ASSUME NEW a \in Archive, SetOnbootFails(p, a)
         PROVE  TypeOK'
    BY <2>12 DEF SetOnbootFails, Goto, Stages, machine, Archive
  <2>13. CASE RestoreDone(p)
    BY <2>13 DEF RestoreDone, Goto, Stages, machine, result
  <2>14. CASE Unmount(p)
    BY <2>14 DEF Unmount, LeaveMount, Goto, Stages, result
  <2>15. CASE Finish(p)
    BY <2>15, ForgetType DEF Finish
  <2>16. CASE CheckMount(p) \/ MountFails(p)
    BY <2>16 DEF CheckMount, MountFails, Goto, Stages, machine, result
  <2>17. QED
    BY <1>1, <2>1, <2>2, <2>3, <2>4, <2>5, <2>6, <2>7, <2>8, <2>9, <2>10, <2>11, <2>12,
       <2>13, <2>14, <2>15, <2>16 DEF Advance
<1>2. ASSUME NEW p \in Proc, Fault(p)
      PROVE  TypeOK'
  <2>1. CASE MountFails(p)
    BY <2>1 DEF MountFails, Goto, Stages, machine
  <2>2. CASE ListingFails(p)
    BY <2>2 DEF ListingFails, Goto, Stages, machine
  <2>3. ASSUME NEW a \in Archive, ReadConfig(p, a, FALSE)
        PROVE  TypeOK'
    BY <2>3 DEF ReadConfig, machine, result
  <2>4. ASSUME NEW a \in Archive, SetOnbootFails(p, a)
        PROVE  TypeOK'
    BY <2>4 DEF SetOnbootFails, Goto, Stages, machine, Archive
  <2>5. ASSUME NEW v \in VMID, NEW d \in Damages, DestroyFails(p, v, d)
        PROVE  TypeOK'
    BY <2>5, DamagedType DEF DestroyFails
  <2>6. ASSUME NEW a \in Archive, NEW d \in Damages, RestoreFails(p, a, d)
        PROVE  TypeOK'
    <3>1. a.vmid \in VMID
      BY DEF Archive
    <3>2. QED
      BY <2>6, <3>1, DamagedType DEF RestoreFails
  <2>7. ASSUME NEW a \in Archive, NEW d \in Damages, RestoreTimesOut(p, a, d)
        PROVE  TypeOK'
    <3>1. a.vmid \in VMID
      BY DEF Archive
    <3>2. QED
      BY <2>7, <3>1, DamagedType DEF RestoreTimesOut, Goto, Stages
  <2>8. CASE UnmountFails(p)
    BY <2>8 DEF UnmountFails, Goto, Stages, machine, result
  <2>9. CASE PoweroffFails(p)
    BY <2>9, ForgetType DEF PoweroffFails, machine
  <2>10. CASE Kill(p)
    <3>1. Interrupt({p}) /\ Forget({p})
      BY <2>10 DEF Kill, Interrupt
    <3>2. QED
      BY <2>10, <3>1, ForgetType, InterruptType DEF Kill
  <2>11. ASSUME NEW a \in Archive, ReadRaises(p, a)
         PROVE  TypeOK'
    BY <2>11 DEF ReadRaises, Goto, Stages, machine
  <2>12. QED
    BY <1>2, <2>1, <2>2, <2>3, <2>4, <2>5, <2>6, <2>7, <2>8, <2>9, <2>10, <2>11 DEF Fault
<1>3. CASE PowerLoss
  <2>1. Interrupt(Proc) /\ Forget(Proc)
    BY <1>3 DEF PowerLoss, Interrupt
  <2>2. QED
    BY <1>3, <2>1, ForgetType, InterruptType DEF PowerLoss
<1>4. ASSUME NEW v \in VMID, NEW tag \in BOOLEAN, Backup(v, tag)
      PROVE  TypeOK'
  BY <1>4, StampAssumption DEF Backup, run, result, Archive
<1>5. ASSUME NEW a \in Archive, Prune(a)
      PROVE  TypeOK'
  BY <1>5 DEF Prune, run, result
<1>6. ASSUME NEW v \in VMID, RemoveFromMain(v)
      PROVE  TypeOK'
  BY <1>6 DEF RemoveFromMain, run, result
<1>7. ASSUME NEW v \in VMID, MakeByHand(v)
      PROVE  TypeOK'
  BY <1>7, StampAssumption DEF MakeByHand, run, result, Guest, HandMadeGuest
<1>8. ASSUME NEW p \in Proc, NEW c \in Configs, Begin(p, c)
      PROVE  TypeOK'
  BY <1>8 DEF Begin, Goto, Stages, machine, result
<1>9. CASE Wake
  BY <1>9 DEF Wake, run, result
<1>10. CASE UNCHANGED vars
  BY <1>10 DEF vars, machine, run, result
<1>11. QED
  BY <1>1, <1>2, <1>3, <1>4, <1>5, <1>6, <1>7, <1>8, <1>9, <1>10
     DEF Next, Around, Schedule, PowerCut, PowerDown

\* Every variable keeps its type.
THEOREM TypeCorrect == Spec => []TypeOK
BY TypeInit, TypeStep, PTL DEF Spec

-----------------------------------------------------------------------------
(***************************************************************************)
(* What runs may do to each other stops here: the invariant below holds    *)
(* for any number of runs at once.  Stamps are never reused, so a listing  *)
(* has one archive for each guest, so taking an archive off todo takes its *)
(* guest off for good.                                                     *)
(***************************************************************************)
OneEach(S) == \A a, b \in S : a.vmid = b.vmid => a = b

StampsUnique ==
  /\ \A a \in share : a.taken <= clock
  /\ \A a, b \in share : a.taken = b.taken => a = b

\* What a run holds comes from its one listing of the share.
Holdings(p) ==
  /\ OneEach(found[p])
  /\ backups[p] \subseteq found[p]
  /\ todo[p] \subseteq found[p]
  /\ pc[p] \in {"idle", "check", "mount", "scan"} => backups[p] = {}
  /\ pc[p] \in {"orphans", "restore", "onboot"} => backups[p] # {}
  /\ pc[p] \in {"mount", "onboot"} => ~cfg[p].dry_run

\* What it still has to destroy is never what it wants to keep.
Condemned(p) ==
  /\ pc[p] # "orphans" => orphans[p] = {}
  /\ \A v \in orphans[p] : /\ v \notin Wanted(p)
                           /\ cfg[p].remove_orphans
                           /\ cfg[p].fenced => cfg[p].low <= v /\ v <= cfg[p].high

\* Each selected guest is still to do, or restored, or failed.
Tally(p) ==
  /\ pc[p] \in {"idle", "check", "mount", "scan", "read"} => restored[p] = {} /\ failed[p] = {}
  /\ pc[p] = "orphans" => /\ todo[p] = backups[p]
                          /\ restored[p] = {}
                          /\ failed[p] \cap Wanted(p) = {}
  /\ pc[p] \in {"restore", "onboot"} =>
       /\ todo[p] \subseteq backups[p]
       /\ restored[p] \subseteq Wanted(p)
       /\ restored[p] \cap failed[p] = {}
       /\ \A a \in todo[p] : a.vmid \notin restored[p] \cup failed[p]
       /\ \A a \in backups[p] : a \in todo[p] \/ a.vmid \in restored[p] \cup failed[p]
  /\ pc[p] \in {"unmount", "verdict"} /\ ~raised[p] =>
       /\ restored[p] \subseteq Wanted(p)
       /\ restored[p] \cap failed[p] = {}
       /\ \A a \in backups[p] : a.vmid \in restored[p] \cup failed[p]

Bookkeeping ==
  /\ TypeOK
  /\ StampsUnique
  /\ \A p \in Proc : Holdings(p) /\ Condemned(p) /\ Tally(p)

\* A process that is left alone keeps its books.
LEMMA BooksUntouched ==
  ASSUME Bookkeeping, NEW q \in Proc,
         pc'[q] = pc[q], cfg'[q] = cfg[q], found'[q] = found[q], backups'[q] = backups[q],
         todo'[q] = todo[q], orphans'[q] = orphans[q], restored'[q] = restored[q],
         failed'[q] = failed[q], raised'[q] = raised[q]
  PROVE  Holdings(q)' /\ Condemned(q)' /\ Tally(q)'
BY DEF Bookkeeping, Holdings, Condemned, Tally, Wanted, OneEach

\* So do all when nothing but the machine changes.
LEMMA BooksAfterMachine ==
  ASSUME Bookkeeping, UNCHANGED run, NEW q \in Proc
  PROVE  Holdings(q)' /\ Condemned(q)' /\ Tally(q)'
BY BooksUntouched DEF run, result

\* And all when some processes die, which leaves them with empty books.
LEMMA BooksAfterForget ==
  ASSUME Bookkeeping, NEW P \in SUBSET Proc, Forget(P), NEW q \in Proc
  PROVE  Holdings(q)' /\ Condemned(q)' /\ Tally(q)'
<1>1. CASE q \in P
  <2>1. /\ pc'[q] = "idle"
        /\ found'[q] = {} /\ backups'[q] = {} /\ todo'[q] = {} /\ orphans'[q] = {}
        /\ restored'[q] = {} /\ failed'[q] = {}
    BY <1>1 DEF Forget
  <2>2. QED
    BY <2>1 DEF Holdings, Condemned, Tally, Wanted, OneEach
<1>2. CASE q \notin P
  <2>1. /\ pc'[q] = pc[q] /\ cfg'[q] = cfg[q] /\ found'[q] = found[q]
        /\ backups'[q] = backups[q] /\ todo'[q] = todo[q] /\ orphans'[q] = orphans[q]
        /\ restored'[q] = restored[q] /\ failed'[q] = failed[q]
    BY <1>2 DEF Forget
  <2>2. raised'[q] = raised[q]
    BY <1>2 DEF Forget, Bookkeeping, TypeOK
  <2>3. QED
    BY <2>1, <2>2, BooksUntouched
<1>3. QED
  BY <1>1, <1>2

\* One listing holds one archive of each guest.
LEMMA LatestOneEach ==
  ASSUME Bookkeeping
  PROVE  OneEach(Latest(Visible))
BY DEF Bookkeeping, TypeOK, StampsUnique, OneEach, Latest, Visible, Archive

\* With no run under way the books are empty, and so in order.
LEMMA BooksInit == Init => Bookkeeping
<1> SUFFICES ASSUME Init PROVE Bookkeeping
  OBVIOUS
<1>1. TypeOK
  BY TypeInit
<1>2. QED
  BY <1>1 DEF Init, NoRun, Bookkeeping, StampsUnique, Holdings, Condemned, Tally, Wanted, OneEach

\* A new archive gets a stamp of its own, and no step changes an old one.
LEMMA StampsStep ==
  ASSUME Bookkeeping, [Next]_vars
  PROVE  StampsUnique'
<1>1. CASE UNCHANGED <<share, clock>>
  BY <1>1 DEF Bookkeeping, StampsUnique
<1>2. ASSUME NEW v \in VMID, NEW tag \in BOOLEAN, Backup(v, tag)
      PROVE  StampsUnique'
  BY <1>2 DEF Backup, Bookkeeping, TypeOK, StampsUnique, Archive
<1>3. ASSUME NEW a \in Archive, Prune(a)
      PROVE  StampsUnique'
  BY <1>3 DEF Prune, Bookkeeping, StampsUnique
<1>4. ASSUME NEW v \in VMID, RemoveFromMain(v)
      PROVE  StampsUnique'
  BY <1>4 DEF RemoveFromMain, Bookkeeping, StampsUnique
<1>5. ASSUME NEW p \in Proc, Advance(p)
      PROVE  UNCHANGED <<share, clock>>
  BY <1>5
     DEF Advance, CheckMount, Mount, MountFails, Scan, ReadConfig, NothingFound, Plan,
         DestroyOrphan, OrphansDone, RestoreGuest, RestoreNothing, RestoreDry, SetOnboot,
         SetOnbootFails, RestoreDone, Unmount, Finish, machine
<1>6. ASSUME NEW p \in Proc, Fault(p)
      PROVE  UNCHANGED <<share, clock>>
  BY <1>6 DEF Fault, MountFails, ListingFails, ReadRaises, ReadConfig, SetOnbootFails, DestroyFails,
     RestoreFails, RestoreTimesOut, UnmountFails, PoweroffFails, Kill, machine
<1>7. QED
  BY <1>1, <1>2, <1>3, <1>4, <1>5, <1>6
     DEF Next, Around, Schedule, PowerCut, PowerDown, PowerLoss, MakeByHand, Begin, Wake,
         vars, machine

\* Every step keeps the books of every process in order.
LEMMA BooksStep ==
  ASSUME Bookkeeping, [Next]_vars
  PROVE  Bookkeeping'
<1> DEFINE Books(q) == Holdings(q) /\ Condemned(q) /\ Tally(q)
<1>1. TypeOK' /\ StampsUnique'
  BY TypeStep, StampsStep DEF Bookkeeping
<1>2. SUFFICES ASSUME NEW q \in Proc
               PROVE  Books(q)'
  BY <1>1 DEF Bookkeeping
<1> USE DEF Bookkeeping, TypeOK
<1>3. ASSUME NEW p \in Proc, Advance(p)
      PROVE  Books(q)'
  <2>1. CASE p # q
    <3>1. CASE Finish(p)
      BY <3>1, BooksAfterForget DEF Finish
    <3>2. CASE ~Finish(p)
      BY <1>3, <2>1, <3>2, BooksUntouched
         DEF Advance, CheckMount, Mount, MountFails, Scan, ReadConfig, NothingFound, Plan,
             DestroyOrphan, OrphansDone, RestoreGuest, RestoreNothing, RestoreDry, SetOnboot,
             SetOnbootFails, RestoreDone, Unmount, Goto, result
    <3>3. QED
      BY <3>1, <3>2
  <2>2. CASE p = q
    <3> USE <2>2 DEF Holdings, Condemned, Tally, Wanted, Goto, result
    <3>1. CASE Mount(q)
      BY <3>1 DEF Mount
    <3>2. CASE Scan(q)
      BY <3>2, LatestOneEach DEF Scan
    <3>3. ASSUME NEW a \in Archive, ReadConfig(q, a, a \in Visible)
          PROVE  Books(q)'
      BY <3>3 DEF ReadConfig, IsNext
    <3>4. CASE NothingFound(q)
      BY <3>4 DEF NothingFound
    <3>5. CASE Plan(q)
      BY <3>5 DEF Plan, Orphans, InFence
    <3>6. ASSUME NEW v \in VMID, DestroyOrphan(q, v)
          PROVE  Books(q)'
      BY <3>6 DEF DestroyOrphan, IsLowest
    <3>7. CASE OrphansDone(q)
      BY <3>7 DEF OrphansDone
    <3>8. ASSUME NEW a \in Archive, RestoreGuest(q, a)
          PROVE  Books(q)'
      BY <3>8 DEF RestoreGuest
    <3>9. ASSUME NEW a \in Archive, RestoreNothing(q, a)
          PROVE  Books(q)'
      BY <3>9 DEF RestoreNothing, IsNext, OneEach
    <3>10. ASSUME NEW a \in Archive, RestoreDry(q, a)
           PROVE  Books(q)'
      BY <3>10 DEF RestoreDry, IsNext, OneEach
    <3>11. ASSUME NEW a \in Archive, SetOnboot(q, a)
           PROVE  Books(q)'
      BY <3>11 DEF SetOnboot, IsNext, OneEach
    <3>12. ASSUME NEW a \in Archive, SetOnbootFails(q, a)
           PROVE  Books(q)'
      BY <3>12 DEF SetOnbootFails, IsNext, OneEach
    <3>13. CASE RestoreDone(q)
      BY <3>13 DEF RestoreDone
    <3>14. CASE Unmount(q)
      BY <3>14 DEF Unmount
    <3>15. CASE Finish(q)
      BY <3>15, BooksAfterForget DEF Finish
    <3>16. CASE CheckMount(q) \/ MountFails(q)
      BY <3>16 DEF CheckMount, MountFails
    <3>17. QED
      BY <1>3, <2>2, <3>1, <3>2, <3>3, <3>4, <3>5, <3>6, <3>7, <3>8, <3>9, <3>10, <3>11, <3>12,
         <3>13, <3>14, <3>15, <3>16 DEF Advance
  <2>3. QED
    BY <2>1, <2>2
<1>4. ASSUME NEW p \in Proc, Fault(p)
      PROVE  Books(q)'
  <2>1. CASE Kill(p)
    BY <2>1, BooksAfterForget DEF Kill, Interrupt
  <2>2. CASE PoweroffFails(p)
    BY <2>2, BooksAfterForget DEF PoweroffFails
  <2>3. CASE p # q /\ ~Kill(p) /\ ~PoweroffFails(p)
    BY <1>4, <2>3, BooksUntouched
       DEF Fault, MountFails, ListingFails, ReadRaises, ReadConfig, SetOnbootFails, DestroyFails,
       RestoreFails, RestoreTimesOut, UnmountFails, Goto, result
  <2>4. CASE p = q /\ ~Kill(p) /\ ~PoweroffFails(p)
    <3> USE <2>4 DEF Holdings, Condemned, Tally, Wanted, Goto, result
    <3>1. CASE MountFails(q)
      BY <3>1 DEF MountFails
    <3>2. CASE ListingFails(q)
      BY <3>2 DEF ListingFails
    <3>3. ASSUME NEW a \in Archive, ReadConfig(q, a, FALSE)
          PROVE  Books(q)'
      BY <3>3 DEF ReadConfig, IsNext
    <3>4. ASSUME NEW a \in Archive, SetOnbootFails(q, a)
          PROVE  Books(q)'
      BY <3>4 DEF SetOnbootFails, IsNext, OneEach
    <3>5. ASSUME NEW v \in VMID, NEW d \in Damages, DestroyFails(q, v, d)
          PROVE  Books(q)'
      BY <3>5 DEF DestroyFails, IsLowest
    <3>6. ASSUME NEW a \in Archive, NEW d \in Damages, RestoreFails(q, a, d)
          PROVE  Books(q)'
      BY <3>6 DEF RestoreFails, IsNext, OneEach
    <3>7. ASSUME NEW a \in Archive, NEW d \in Damages, RestoreTimesOut(q, a, d)
          PROVE  Books(q)'
      BY <3>7 DEF RestoreTimesOut
    <3>8. CASE UnmountFails(q)
      BY <3>8 DEF UnmountFails
    <3>9. ASSUME NEW a \in Archive, ReadRaises(q, a)
          PROVE  Books(q)'
      BY <3>9 DEF ReadRaises
    <3>10. Fault(q) /\ ~Kill(q) /\ ~PoweroffFails(q)
      BY <1>4, <2>4
    <3>11. QED
      BY <3>1, <3>2, <3>3, <3>4, <3>5, <3>6, <3>7, <3>8, <3>9, <3>10 DEF Fault
  <2>5. QED
    BY <2>1, <2>2, <2>3, <2>4
<1>5. CASE PowerLoss
  BY <1>5, BooksAfterForget DEF PowerLoss, Interrupt
<1>6. ASSUME NEW p \in Proc, NEW c \in Configs, Begin(p, c)
      PROVE  Books(q)'
  <2>1. CASE p # q
    BY <1>6, <2>1, BooksUntouched DEF Begin, Goto, result
  <2>2. CASE p = q
    BY <1>6, <2>2 DEF Begin, Holdings, Condemned, Tally, Wanted, Goto, result
  <2>3. QED
    BY <2>1, <2>2
<1>7. CASE UNCHANGED run
  BY <1>7, BooksAfterMachine
<1>8. QED
  BY <1>3, <1>4, <1>5, <1>6, <1>7
     DEF Next, Around, Schedule, PowerCut, PowerDown, Backup, Prune, RemoveFromMain, MakeByHand,
         Wake, vars

\* At any time what a run holds, what it condemned and what it tallied fit
\* together: the inductive invariant behind the theorems on what is lost.
THEOREM BookkeepingInvariant == Spec => []Bookkeeping
BY BooksInit, BooksStep, PTL DEF Spec

\* At the end of a run that no exception cut short each guest it selected is
\* recorded as restored or as failed, and as one of them only.
THEOREM AllAccountedFor == Spec => []EveryBackupAccountedFor
<1>1. Bookkeeping => EveryBackupAccountedFor
  BY DEF Bookkeeping, Tally, EveryBackupAccountedFor, Wanted
<1>2. QED
  BY <1>1, BookkeepingInvariant, PTL

-----------------------------------------------------------------------------
(* How a standby guest can be lost. *)

\* Death in mid-command damages what a command was at, and nothing else.
LEMMA InterruptHits ==
  ASSUME NEW P \in SUBSET Proc, Interrupt(P), NEW v \in VMID, guest[v]' # guest[v]
  PROVE  \E p \in P : v \in InFlight(p)
<1>1. PICK d \in [UNION {InFlight(p) : p \in P} -> Damages] :
        guest' = [w \in VMID |-> IF w \in DOMAIN d THEN Damaged(w, d[w]) ELSE guest[w]]
  BY DEF Interrupt
<1>2. v \in DOMAIN d
  BY <1>1
<1>3. QED
  BY <1>1, <1>2

\* Every guest that is lost was at that moment in the hands of a command.
LEMMA LostInFlight ==
  ASSUME Bookkeeping, [Next]_vars, NEW v \in VMID, Lost(v)
  PROVE  \E p \in Proc : v \in InFlight(p)
<1> USE DEF Bookkeeping, TypeOK
<1>1. guest[v].conf = "standby" /\ guest[v]' # guest[v] /\ guest[v]' \in {NoGuest, TornGuest}
  BY DEF Lost
<1>2. ASSUME NEW p \in Proc, Advance(p)
      PROVE  v \in InFlight(p)
  <2>1. ASSUME NEW w \in VMID, DestroyOrphan(p, w)
        PROVE  v \in InFlight(p)
    BY <1>1, <2>1 DEF DestroyOrphan, InFlight
  <2>2. ASSUME NEW a \in Archive, RestoreGuest(p, a)
        PROVE  FALSE
    <3>1. guest[v]' = Restored(a)
      BY <1>1, <2>2 DEF RestoreGuest, Archive
    <3>2. Restored(a) \notin {NoGuest, TornGuest}
      BY StampAssumption DEF Restored, NoGuest, TornGuest, Torn, Archive
    <3>3. QED
      BY <1>1, <3>1, <3>2
  <2>3. ASSUME NEW a \in Archive, SetOnboot(p, a)
        PROVE  FALSE
    <3>1. guest[v]' = Quiet(guest[v])
      BY <1>1, <2>3 DEF SetOnboot, Archive
    <3>2. guest[v] \in Guest
      OBVIOUS
    <3>3. guest[v]'.conf = "standby" /\ guest[v]'.onboot = FALSE
      BY <1>1, <3>1, <3>2, QuietType
    <3>4. QED
      BY <1>1, <3>3 DEF NoGuest, TornGuest
  <2>4. QED
    BY <1>1, <1>2, <2>1, <2>2, <2>3
       DEF Advance, CheckMount, Mount, MountFails, Scan, ReadConfig, NothingFound, Plan,
           OrphansDone, RestoreNothing, RestoreDry, SetOnbootFails, RestoreDone, Unmount,
           Finish, machine
<1>3. ASSUME NEW p \in Proc, Fault(p)
      PROVE  v \in InFlight(p)
  <2>1. ASSUME NEW w \in VMID, NEW d \in Damages, DestroyFails(p, w, d)
        PROVE  v \in InFlight(p)
    BY <1>1, <2>1 DEF DestroyFails, InFlight
  <2>2. ASSUME NEW a \in Archive, NEW d \in Damages,
               RestoreFails(p, a, d) \/ RestoreTimesOut(p, a, d)
        PROVE  v \in InFlight(p)
    <3>1. v = a.vmid
      BY <1>1, <2>2 DEF RestoreFails, RestoreTimesOut, Archive
    <3>2. QED
      BY <2>2, <3>1 DEF RestoreFails, RestoreTimesOut, InFlight, IsNext
  <2>3. CASE Kill(p)
    BY <1>1, <2>3, InterruptHits DEF Kill
  <2>4. QED
    BY <1>1, <1>3, <2>1, <2>2, <2>3
       DEF Fault, MountFails, ListingFails, ReadRaises, ReadConfig, SetOnbootFails, UnmountFails,
           PoweroffFails, machine
<1>4. CASE PowerLoss
  BY <1>1, <1>4, InterruptHits DEF PowerLoss
<1>5. ASSUME NEW w \in VMID, MakeByHand(w)
      PROVE  FALSE
  BY <1>1, <1>5 DEF MakeByHand, NoGuest
<1>6. QED
  BY <1>1, <1>2, <1>3, <1>4, <1>5
     DEF Next, Around, Schedule, PowerCut, PowerDown, Backup, Prune, RemoveFromMain, Begin, Wake,
         vars, machine

\* A command works on a guest the run selected, or on an orphan inside its fence.
LEMMA InFlightAllowed ==
  ASSUME Bookkeeping, NEW p \in Proc, NEW v \in InFlight(p)
  PROVE  /\ pc[p] \in {"orphans", "restore"}
         /\ ~cfg[p].dry_run
         /\ backups[p] # {}
         /\ \/ v \in Wanted(p)
            \/ /\ cfg[p].remove_orphans
               /\ cfg[p].fenced => cfg[p].low <= v /\ v <= cfg[p].high
BY DEF Bookkeeping, Holdings, Condemned, Tally, InFlight, IsNext, IsLowest, Wanted

\* However many runs interleave, and whatever fails, a standby guest is lost
\* only to a run that found tagged archives on the share.
THEOREM EmptyShareSafe == Spec => EmptyShareDestroysNothing
<1>1. ASSUME Bookkeeping, [Next]_vars, NEW v \in VMID, Lost(v)
      PROVE  \E p \in Proc : backups[p] # {}
  BY <1>1, LostInFlight, InFlightAllowed
<1>2. Bookkeeping /\ [Next]_vars =>
        [\A v \in VMID : Lost(v) => \E p \in Proc : backups[p] # {}]_vars
  BY <1>1
<1>3. QED
  BY <1>2, BookkeepingInvariant, PTL DEF Spec, EmptyShareDestroysNothing

\* However many runs interleave, and whatever fails, an unselected standby
\* guest is lost only inside the fence of a real run that removes orphans.
THEOREM FenceSafe == Spec => FenceHolds
<1> DEFINE Allowed(p, v) ==
      /\ pc[p] \in {"orphans", "restore"}
      /\ ~cfg[p].dry_run
      /\ \/ v \in Wanted(p)
         \/ /\ cfg[p].remove_orphans
            /\ cfg[p].fenced => v \in cfg[p].low .. cfg[p].high
<1>1. ASSUME Bookkeeping, [Next]_vars, NEW v \in VMID, Lost(v)
      PROVE  \E p \in Proc : Allowed(p, v)
  <2>1. PICK p \in Proc : v \in InFlight(p)
    BY <1>1, LostInFlight
  <2>2. cfg[p] \in Settings /\ v \in Nat
    BY <1>1, VMIDAssumption, ConfigsAssumption DEF Bookkeeping, TypeOK
  <2>3. QED
    BY <1>1, <2>1, <2>2, InFlightAllowed DEF Settings
<1>2. Bookkeeping /\ [Next]_vars =>
        [\A v \in VMID : Lost(v) => \E p \in Proc : Allowed(p, v)]_vars
  BY <1>1
<1>3. QED
  BY <1>2, BookkeepingInvariant, PTL DEF Spec, FenceHolds

\* A rehearsal, in any company of rehearsals, changes no guest, mounts nothing
\* and asks for no poweroff.
THEOREM DryRunSafe == Spec => DryRunChangesNothing
<1> DEFINE OnlyByHand(v) == guest[v]' # guest[v] => guest[v] = NoGuest /\ guest[v]' = HandMadeGuest
           Harmless == /\ \A v \in VMID : OnlyByHand(v)
                       /\ mounted' <= mounted
                       /\ power = "on" => power' # "stopping"
<1>1. ASSUME Bookkeeping, [Next]_vars, \A p \in Proc : pc[p] # "idle" => cfg[p].dry_run
      PROVE  Harmless
  <2> USE <1>1 DEF Bookkeeping, TypeOK
  <2>1. \A p \in Proc : InFlight(p) = {}
    BY DEF InFlight
  <2>2. ASSUME NEW P \in SUBSET Proc, Interrupt(P)
        PROVE  \A v \in VMID : guest[v]' = guest[v]
    BY <2>1, <2>2, InterruptHits
  <2>3. ASSUME NEW p \in Proc, Advance(p)
        PROVE  Harmless
    <3>1. cfg[p].dry_run
      BY <2>3
         DEF Advance, CheckMount, Mount, MountFails, Scan, ReadConfig, NothingFound, Plan,
             DestroyOrphan, OrphansDone, RestoreGuest, RestoreNothing, RestoreDry, SetOnboot,
             SetOnbootFails, RestoreDone, Unmount, Finish
    <3>2. pc[p] \notin {"mount", "onboot"}
      BY <3>1 DEF Holdings
    <3>3. UNCHANGED guest
      BY <2>3, <3>1, <3>2
         DEF Advance, CheckMount, Mount, MountFails, Scan, ReadConfig, NothingFound, Plan,
             DestroyOrphan, OrphansDone, RestoreGuest, RestoreNothing, RestoreDry, SetOnboot,
             SetOnbootFails, RestoreDone, Unmount, Finish, machine
    <3>4. /\ mounted' <= mounted
          /\ power = "on" => power' # "stopping"
      BY <2>3, <3>1, <3>2
         DEF Advance, CheckMount, Mount, MountFails, Scan, ReadConfig, NothingFound, Plan,
             DestroyOrphan, OrphansDone, RestoreGuest, RestoreNothing, RestoreDry, SetOnboot,
             SetOnbootFails, RestoreDone, Unmount, LeaveMount, Finish, PowersOff, machine
    <3>5. QED
      BY <3>3, <3>4
  <2>4. ASSUME NEW p \in Proc, Fault(p)
        PROVE  Harmless
    <3>1. CASE Kill(p)
      BY <2>2, <3>1 DEF Kill
    <3>2. CASE ~Kill(p)
      <4>1. cfg[p].dry_run
        BY <2>4, <3>2 DEF Fault, MountFails, ListingFails, ReadRaises, ReadConfig, SetOnbootFails,
           DestroyFails, RestoreFails, RestoreTimesOut, UnmountFails, PoweroffFails
      <4>2. UNCHANGED machine
        BY <2>4, <3>2, <4>1 DEF Fault, MountFails, ListingFails, ReadRaises, ReadConfig, SetOnbootFails,
           DestroyFails, RestoreFails, RestoreTimesOut, UnmountFails, PoweroffFails
      <4>3. QED
        BY <4>2 DEF machine
    <3>3. QED
      BY <3>1, <3>2
  <2>5. CASE PowerLoss
    BY <2>2, <2>5 DEF PowerLoss
  <2>6. ASSUME NEW v \in VMID, MakeByHand(v)
        PROVE  Harmless
    BY <2>6 DEF MakeByHand
  <2>7. CASE UNCHANGED <<guest, mounted, power>>
    BY <2>7
  <2>8. CASE Wake
    BY <2>8 DEF Wake
  <2>9. QED
    BY <2>3, <2>4, <2>5, <2>6, <2>7, <2>8
       DEF Next, Around, Schedule, PowerCut, PowerDown, Backup, Prune, RemoveFromMain, Begin,
           vars, machine
<1>2. Bookkeeping /\ [Next]_vars =>
        [(\A p \in Proc : pc[p] # "idle" => cfg[p].dry_run) => Harmless]_vars
  BY <1>1
<1>3. QED
  BY <1>2, BookkeepingInvariant, PTL DEF Spec, DryRunChangesNothing

-----------------------------------------------------------------------------
(* That a run gets on, and what it takes to stop it half-way. *)

\* A step of one process is nothing to the memory of another.
LEMMA MemoryOfOthers ==
  ASSUME TypeOK, NEW p \in Proc, NEW q \in Proc, p # q,
         Advance(q) \/ Fault(q) \/ \E c \in Configs : Begin(q, c)
  PROVE  Memory(p)' = Memory(p)
<1> USE DEF TypeOK, Memory
<1>1. ASSUME Forget({q})
      PROVE  Memory(p)' = Memory(p)
  BY <1>1 DEF Forget
<1>2. CASE Advance(q)
  BY <1>1, <1>2
     DEF Advance, CheckMount, Mount, MountFails, Scan, ReadConfig, NothingFound, Plan,
         DestroyOrphan, OrphansDone, RestoreGuest, RestoreNothing, RestoreDry, SetOnboot,
         SetOnbootFails, RestoreDone, Unmount, Finish, Goto, result
<1>3. CASE Fault(q)
  BY <1>1, <1>3
     DEF Fault, MountFails, ListingFails, ReadRaises, ReadConfig, SetOnbootFails, DestroyFails,
         RestoreFails, RestoreTimesOut, UnmountFails, PoweroffFails, Kill, Interrupt, Goto, result
<1>4. CASE \E c \in Configs : Begin(q, c)
  BY <1>4 DEF Begin, Goto, result
<1>5. QED
  BY <1>2, <1>3, <1>4

\* A process that ends is at the end of its course.
LEMMA EndIsNearer ==
  ASSUME TypeOK, NEW P, Forget(P), NEW p \in P, P \subseteq Proc, pc[p] # "idle"
  PROVE  Nearer(p)
<1>1. pc'[p] = "idle" /\ pc[p] \in Stages
  BY DEF Forget, TypeOK
<1>2. QED
  BY <1>1 DEF Nearer, Course, Stages

\* Every step of a run brings it nearer to its end, in any company.
THEOREM NeverInVain == Spec => NoStepInVain
<1>1. ASSUME TypeOK, [Next]_vars, NEW p \in Proc, pc[p] # "idle", Memory(p)' # Memory(p)
      PROVE  Nearer(p)
  <2> USE <1>1 DEF TypeOK
  <2>1. CASE Advance(p)
    <3> USE DEF Nearer, Course, Shorter, Goto, IsNext, IsLowest
    <3>1. CASE Mount(p)
      BY <3>1 DEF Mount
    <3>2. CASE Scan(p)
      BY <3>2 DEF Scan
    <3>3. ASSUME NEW a \in Archive, ReadConfig(p, a, a \in Visible)
          PROVE  Nearer(p)
      BY <3>3 DEF ReadConfig
    <3>4. CASE NothingFound(p)
      BY <3>4 DEF NothingFound
    <3>5. CASE Plan(p)
      BY <3>5 DEF Plan
    <3>6. ASSUME NEW v \in VMID, DestroyOrphan(p, v)
          PROVE  Nearer(p)
      BY <3>6 DEF DestroyOrphan
    <3>7. CASE OrphansDone(p)
      BY <3>7 DEF OrphansDone
    <3>8. ASSUME NEW a \in Archive, RestoreGuest(p, a)
          PROVE  Nearer(p)
      BY <3>8 DEF RestoreGuest
    <3>9. ASSUME NEW a \in Archive, RestoreNothing(p, a) \/ RestoreDry(p, a)
          PROVE  Nearer(p)
      BY <3>9 DEF RestoreNothing, RestoreDry
    <3>10. ASSUME NEW a \in Archive, SetOnboot(p, a) \/ SetOnbootFails(p, a)
           PROVE  Nearer(p)
      BY <3>10 DEF SetOnboot, SetOnbootFails
    <3>11. CASE RestoreDone(p)
      BY <3>11 DEF RestoreDone
    <3>12. CASE Unmount(p)
      BY <3>12 DEF Unmount
    <3>13. CASE Finish(p)
      BY <3>13, EndIsNearer DEF Finish
    <3>14. CASE CheckMount(p) \/ MountFails(p)
      BY <3>14 DEF CheckMount, MountFails
    <3>15. QED
      BY <2>1, <3>1, <3>2, <3>3, <3>4, <3>5, <3>6, <3>7, <3>8, <3>9, <3>10, <3>11, <3>12,
         <3>13, <3>14 DEF Advance
  <2>2. CASE Fault(p)
    <3> USE DEF Nearer, Course, Shorter, Goto, IsNext, IsLowest
    <3>1. CASE MountFails(p)
      BY <3>1 DEF MountFails
    <3>2. CASE ListingFails(p)
      BY <3>2 DEF ListingFails
    <3>3. ASSUME NEW a \in Archive, ReadConfig(p, a, FALSE)
          PROVE  Nearer(p)
      BY <3>3 DEF ReadConfig
    <3>4. ASSUME NEW a \in Archive, SetOnbootFails(p, a)
          PROVE  Nearer(p)
      BY <3>4 DEF SetOnbootFails
    <3>5. ASSUME NEW v \in VMID, NEW d \in Damages, DestroyFails(p, v, d)
          PROVE  Nearer(p)
      BY <3>5 DEF DestroyFails
    <3>6. ASSUME NEW a \in Archive, NEW d \in Damages, RestoreFails(p, a, d)
          PROVE  Nearer(p)
      BY <3>6 DEF RestoreFails
    <3>7. ASSUME NEW a \in Archive, NEW d \in Damages, RestoreTimesOut(p, a, d)
          PROVE  Nearer(p)
      BY <3>7 DEF RestoreTimesOut
    <3>8. CASE UnmountFails(p)
      BY <3>8 DEF UnmountFails
    <3>9. CASE PoweroffFails(p) \/ Kill(p)
      BY <3>9, EndIsNearer DEF PoweroffFails, Kill, Interrupt
    <3>10. ASSUME NEW a \in Archive, ReadRaises(p, a)
           PROVE  Nearer(p)
      BY <3>10 DEF ReadRaises
    <3>11. QED
      BY <2>2, <3>1, <3>2, <3>3, <3>4, <3>5, <3>6, <3>7, <3>8, <3>9, <3>10 DEF Fault
  <2>3. ASSUME NEW c \in Configs, Begin(p, c)
        PROVE  Nearer(p)
    BY <2>3 DEF Begin
  <2>4. CASE PowerLoss
    BY <2>4, EndIsNearer DEF PowerLoss, Interrupt
  <2>5. CASE UNCHANGED run
    BY <2>5 DEF run, result, Memory
  <2>6. QED
    BY <2>1, <2>2, <2>3, <2>4, <2>5, MemoryOfOthers
       DEF Next, Around, Schedule, PowerCut, PowerDown, Backup, Prune, RemoveFromMain,
           MakeByHand, Wake, vars
<1>2. TypeOK /\ [Next]_vars =>
        [\A p \in Proc : pc[p] # "idle" /\ Memory(p)' # Memory(p) => Nearer(p)]_vars
  BY <1>1
<1>3. QED
  BY <1>2, TypeCorrect, PTL DEF Spec, NoStepInVain

\* The config of every tagged archive that a run comes to can be read.
EachTaggedRead == \A p \in Proc, a \in Archive : a.tagged => ~ReadConfig(p, a, FALSE)

\* What a run saw and has not read yet, or has selected, is all that is tagged.
Selects(p) ==
  /\ pc[p] = "read" => \A a \in found[p] : a.tagged => a \in todo[p] \cup backups[p]
  /\ \/ pc[p] \in {"orphans", "restore", "onboot"}
     \/ pc[p] \in {"unmount", "verdict"} /\ ~raised[p]
     => \A a \in found[p] : a.tagged => a \in backups[p]

LEMMA SelectsStep ==
  ASSUME TypeOK, [Next]_vars, EachTaggedRead, NEW p \in Proc, Selects(p)
  PROVE  Selects(p)'
<1> USE DEF TypeOK, Selects
<1>1. CASE Memory(p)' = Memory(p)
  BY <1>1 DEF Memory
<1>2. ASSUME Forget({p}) \/ Forget(Proc)
      PROVE  Selects(p)'
  BY <1>2 DEF Forget
<1>3. ASSUME NEW a \in Archive, NEW readable \in BOOLEAN, ReadConfig(p, a, readable)
      PROVE  Selects(p)'
  <2>1. a.tagged => readable
    BY <1>3 DEF EachTaggedRead
  <2>2. QED
    BY <1>3, <2>1 DEF ReadConfig
<1>4. CASE Advance(p)
  <2>1. ASSUME NEW a \in Archive, ReadConfig(p, a, a \in Visible)
        PROVE  Selects(p)'
    <3>1. (a \in Visible) \in BOOLEAN
      OBVIOUS
    <3>2. QED
      BY <1>3, <2>1, <3>1
  <2>2. CASE Scan(p)
    BY <2>2 DEF Scan, Goto
  <2>3. CASE Plan(p)
    BY <2>3 DEF Plan, Goto
  <2>4. CASE Finish(p)
    BY <1>2, <2>4 DEF Finish
  <2>5. CASE NothingFound(p)
    BY <2>5 DEF NothingFound, Goto, result
  <2>6. QED
    BY <1>4, <2>1, <2>2, <2>3, <2>4, <2>5
       DEF Advance, CheckMount, Mount, MountFails, NothingFound, DestroyOrphan, OrphansDone,
           RestoreGuest, RestoreNothing, RestoreDry, SetOnboot, SetOnbootFails, RestoreDone,
           Unmount, Goto, result
<1>5. CASE Fault(p)
  BY <1>2, <1>3, <1>5
     DEF Fault, MountFails, ListingFails, ReadRaises, SetOnbootFails, DestroyFails,
         RestoreFails, RestoreTimesOut, UnmountFails, PoweroffFails, Kill, Interrupt, Goto, result
<1>6. ASSUME NEW c \in Configs, Begin(p, c)
      PROVE  Selects(p)'
  BY <1>6 DEF Begin, Goto
<1>7. CASE PowerLoss
  BY <1>2, <1>7 DEF PowerLoss, Interrupt
<1>8. CASE UNCHANGED run
  BY <1>1, <1>8 DEF run, result, Memory
<1>9. QED
  BY <1>1, <1>4, <1>5, <1>6, <1>7, <1>8, MemoryOfOthers
     DEF Next, Around, Schedule, PowerCut, PowerDown, Backup, Prune, RemoveFromMain,
         MakeByHand, Wake, vars

\* So it is at any time, in any number of runs side by side.
LEMMA SelectsInvariant == Spec /\ [][EachTaggedRead]_vars => [](\A p \in Proc : Selects(p))
<1>1. Init => \A p \in Proc : Selects(p)
  BY DEF Init, NoRun, Selects
<1>2. TypeOK /\ (\A p \in Proc : Selects(p)) /\ [Next]_vars /\ [EachTaggedRead]_vars
        => (\A p \in Proc : Selects(p))'
  <2> SUFFICES ASSUME TypeOK, \A p \in Proc : Selects(p), [Next]_vars, [EachTaggedRead]_vars,
                      NEW p \in Proc
               PROVE  Selects(p)'
    OBVIOUS
  <2>1. CASE EachTaggedRead
    BY <2>1, SelectsStep
  <2>2. CASE UNCHANGED vars
    BY <2>2 DEF Selects, vars, run, result
  <2>3. QED
    BY <2>1, <2>2
<1>3. QED
  BY <1>1, <1>2, TypeCorrect, PTL DEF Spec

\* An archive that cannot be read, or is gone when its turn comes, is all it takes
\* for a guest that is backed up to count as an orphan, and nothing else does it: no
\* fence, no archive written in the middle, no failed tool, no second run
\* (backups.py:229-245, README, Orphan cleanup).
THEOREM OnlyUnreadableMakesOrphans ==
  Spec /\ [][EachTaggedRead]_vars => []OnlyUnbackedGuestsAreOrphans
<1>1. Bookkeeping /\ (\A p \in Proc : Selects(p)) => OnlyUnbackedGuestsAreOrphans
  BY DEF Bookkeeping, Condemned, Selects, OnlyUnbackedGuestsAreOrphans, Wanted
<1>2. QED
  BY <1>1, SelectsInvariant, BookkeepingInvariant, PTL

\* A run that no exception cut short reports on every guest main had on standby when
\* it listed the share, not only on those it selected.
EveryTaggedAccountedFor ==
  \A p \in Proc : pc[p] = "verdict" /\ ~raised[p] =>
    \A a \in found[p] : a.tagged => a.vmid \in restored[p] \cup failed[p]

\* Where each config can be read no standby guest of main is passed over in silence,
\* whatever main writes or prunes meanwhile, whichever mount, tool or other run fails
\* or interferes: the run names it as restored or as failed, or ends in an exception
\* (backups.py:229-245, restore.py:69-79).
THEOREM NonePassedOver ==
  Spec /\ [][EachTaggedRead]_vars => []EveryTaggedAccountedFor
<1>1. Bookkeeping /\ (\A p \in Proc : Selects(p)) => EveryTaggedAccountedFor
  BY DEF Bookkeeping, Tally, Selects, EveryTaggedAccountedFor
<1>2. QED
  BY <1>1, SelectsInvariant, BookkeepingInvariant, PTL

-----------------------------------------------------------------------------
(***************************************************************************)
(* One run at a time.  Nothing in the code keeps a second controller       *)
(* process out; what follows is what a run achieves when there is none.    *)
(***************************************************************************)
Alone == \A p, q \in Proc : p = q

\* The guests a real run has dealt with are as it left them, and the orphans
\* it has not dealt with are on its list.
InHand(p) ==
  /\ Busy(p) /\ ~cfg[p].dry_run => mounted > 0
  /\ \A v \in orphans[p] : guest[v].conf = "standby"
  /\ pc[p] = "orphans" /\ ~cfg[p].dry_run /\ failed[p] = {} /\ cfg[p].remove_orphans =>
       Orphans(p) \subseteq orphans[p]
  /\ pc[p] = "onboot" => \A a \in todo[p] : IsNext(a, todo[p]) => guest[a.vmid] = Restored(a)
  /\ pc[p] \in {"restore", "onboot", "unmount", "verdict"} /\ ~cfg[p].dry_run =>
       \A a \in backups[p] : a.vmid \in restored[p] => guest[a.vmid] = Quiet(Restored(a))
  /\ /\ pc[p] \in {"restore", "onboot", "unmount", "verdict"} /\ ~cfg[p].dry_run
     /\ backups[p] # {} /\ failed[p] = {} /\ ~raised[p] /\ cfg[p].remove_orphans
     => Orphans(p) = {}

Orderly == Bookkeeping /\ \A p \in Proc : InHand(p)

\* With no run under way nothing is in hand.
LEMMA OrderlyInit == Init => Orderly
<1> SUFFICES ASSUME Init PROVE Orderly
  OBVIOUS
<1>1. Bookkeeping
  BY BooksInit
<1>2. QED
  BY <1>1 DEF Init, NoRun, Orderly, InHand, Busy

\* The archive next in turn belongs to one guest.
LEMMA NextUnique ==
  ASSUME NEW S \in SUBSET Archive, NEW a, NEW b, IsNext(a, S), IsNext(b, S)
  PROVE  a.vmid = b.vmid
<1>1. a.vmid <= b.vmid /\ b.vmid <= a.vmid
  BY DEF IsNext
<1>2. a.vmid \in Nat /\ b.vmid \in Nat
  BY VMIDAssumption DEF IsNext, Archive
<1>3. QED
  BY <1>1, <1>2

\* A dead process holds nothing.
LEMMA InHandAfterForget ==
  ASSUME NEW P, Forget(P), NEW q \in P, P \subseteq Proc
  PROVE  InHand(q)'
<1>1. /\ pc'[q] = "idle"
      /\ orphans'[q] = {}
  BY DEF Forget
<1>2. QED
  BY <1>1 DEF InHand, Busy

\* While only one process can run, every step keeps its work in hand.
LEMMA OrderlyStep ==
  ASSUME Alone, Orderly, [Next]_vars
  PROVE  Orderly'
<1>1. Bookkeeping /\ Bookkeeping'
  BY BooksStep DEF Orderly
<1>2. SUFFICES ASSUME NEW q \in Proc
               PROVE  InHand(q)'
  BY <1>1 DEF Orderly
<1>3. InHand(q) /\ TypeOK /\ Holdings(q) /\ Condemned(q) /\ Tally(q)
  BY <1>1 DEF Orderly, Bookkeeping
<1>4. ASSUME Advance(q)
      PROVE  InHand(q)'
  <2> USE <1>3 DEF TypeOK, InHand, Busy, Goto
  <2>1. CASE Mount(q)
    BY <2>1 DEF Mount, Condemned
  <2>2. CASE Scan(q)
    BY <2>2 DEF Scan, machine, Condemned
  <2>3. ASSUME NEW a \in Archive, ReadConfig(q, a, a \in Visible)
        PROVE  InHand(q)'
    BY <2>3 DEF ReadConfig, machine, Condemned
  <2>4. CASE NothingFound(q)
    BY <2>4 DEF NothingFound, machine, Condemned
  <2>5. CASE Plan(q)
    BY <2>5 DEF Plan, machine, Orphans, Wanted
  <2>6. ASSUME NEW v \in VMID, DestroyOrphan(q, v)
        PROVE  InHand(q)'
    BY <2>6 DEF DestroyOrphan, IsLowest, Orphans, Wanted, NoGuest
  <2>7. CASE OrphansDone(q)
    BY <2>7 DEF OrphansDone, machine, result, Orphans, Wanted, Tally
  <2>8. ASSUME NEW a \in Archive, RestoreGuest(q, a)
        PROVE  InHand(q)'
    <3>1. /\ a \in todo[q] /\ a \in backups[q] /\ a.vmid \in VMID
          /\ a.vmid \in Wanted(q) /\ a.vmid \notin restored[q]
          /\ orphans[q] = {} /\ mounted > 0
      BY <2>8 DEF RestoreGuest, Tally, Condemned, IsNext, Wanted, Archive
    <3>2. /\ pc'[q] = "onboot" /\ ~cfg[q].dry_run
          /\ guest' = [guest EXCEPT ![a.vmid] = Restored(a)]
          /\ UNCHANGED <<mounted, cfg, backups, todo, orphans, restored, failed, raised>>
      BY <2>8 DEF RestoreGuest, result
    <3>3. Orphans(q)' \subseteq Orphans(q)
      BY <3>1, <3>2 DEF Orphans, Wanted
    <3>4. ASSUME NEW b \in todo[q], IsNext(b, todo[q])
          PROVE  guest'[b.vmid] = Restored(b)
      <4>1. b.vmid = a.vmid
        BY <2>8, <3>4, NextUnique DEF RestoreGuest
      <4>2. b = a
        BY <3>1, <4>1 DEF Holdings, OneEach
      <4>3. QED
        BY <3>1, <3>2, <4>2
    <3>5. ASSUME NEW b \in backups[q], b.vmid \in restored[q]
          PROVE  guest'[b.vmid] = Quiet(Restored(b))
      BY <2>8, <3>1, <3>2, <3>5 DEF RestoreGuest
    <3>6. QED
      BY <2>8, <3>1, <3>2, <3>3, <3>4, <3>5 DEF RestoreGuest, IsNext
  <2>9. ASSUME NEW a \in Archive, RestoreNothing(q, a)
        PROVE  InHand(q)'
    BY <2>9 DEF RestoreNothing, machine, Condemned
  <2>10. ASSUME NEW a \in Archive, RestoreDry(q, a)
         PROVE  InHand(q)'
    BY <2>10 DEF RestoreDry, machine, Condemned
  <2>11. ASSUME NEW a \in Archive, SetOnboot(q, a)
         PROVE  InHand(q)'
    <3>1. /\ a \in todo[q] /\ a \in backups[q] /\ a.vmid \in VMID
          /\ a.vmid \in Wanted(q) /\ guest[a.vmid] = Restored(a)
          /\ orphans[q] = {} /\ mounted > 0 /\ ~cfg[q].dry_run
      BY <2>11 DEF SetOnboot, Holdings, Tally, Condemned, IsNext, Wanted, Archive
    <3>2. /\ pc'[q] = "restore"
          /\ guest' = [guest EXCEPT ![a.vmid] = Quiet(Restored(a))]
          /\ restored'[q] = restored[q] \cup {a.vmid}
          /\ UNCHANGED <<mounted, cfg, backups, orphans, failed, raised>>
      BY <2>11, <3>1 DEF SetOnboot
    <3>3. Orphans(q)' \subseteq Orphans(q)
      BY <3>1, <3>2 DEF Orphans, Wanted
    <3>4. ASSUME NEW b \in backups[q], b.vmid \in restored'[q]
          PROVE  guest'[b.vmid] = Quiet(Restored(b))
      <4>1. CASE b.vmid = a.vmid
        BY <3>1, <3>2, <4>1 DEF Holdings, OneEach
      <4>2. CASE b.vmid # a.vmid
        BY <2>11, <3>1, <3>2, <3>4, <4>2 DEF SetOnboot
      <4>3. QED
        BY <4>1, <4>2
    <3>5. QED
      BY <2>11, <3>1, <3>2, <3>3, <3>4 DEF SetOnboot
  <2>12. ASSUME NEW a \in Archive, SetOnbootFails(q, a)
         PROVE  InHand(q)'
    BY <2>12 DEF SetOnbootFails, machine, Condemned
  <2>13. CASE RestoreDone(q)
    BY <2>13 DEF RestoreDone, machine, result, Condemned, Orphans, Wanted
  <2>14. CASE Unmount(q)
    BY <2>14 DEF Unmount, result, Condemned, Orphans, Wanted
  <2>15. CASE Finish(q)
    BY <2>15, InHandAfterForget DEF Finish
  <2>16. CASE CheckMount(q) \/ MountFails(q)
    BY <2>16 DEF CheckMount, MountFails, machine, result, Condemned, Holdings
  <2>17. QED
    BY <1>4, <2>16, <2>1, <2>2, <2>3, <2>4, <2>5, <2>6, <2>7, <2>8, <2>9, <2>10, <2>11, <2>12,
       <2>13, <2>14, <2>15 DEF Advance
<1>5. ASSUME Fault(q)
      PROVE  InHand(q)'
  <2> USE <1>3 DEF TypeOK, InHand, Busy, Goto
  <2>1. CASE MountFails(q)
    BY <2>1 DEF MountFails, machine, Condemned, Holdings
  <2>2. CASE ListingFails(q)
    BY <2>2 DEF ListingFails, machine, Condemned, Tally
  <2>3. ASSUME NEW a \in Archive, ReadConfig(q, a, FALSE)
        PROVE  InHand(q)'
    BY <2>3 DEF ReadConfig, machine, Condemned
  <2>4. ASSUME NEW a \in Archive, SetOnbootFails(q, a)
        PROVE  InHand(q)'
    BY <2>4 DEF SetOnbootFails, machine, Condemned
  <2>5. ASSUME NEW v \in VMID, NEW d \in Damages, DestroyFails(q, v, d)
        PROVE  InHand(q)'
    BY <2>5 DEF DestroyFails
  <2>6. ASSUME NEW a \in Archive, NEW d \in Damages, RestoreFails(q, a, d)
        PROVE  InHand(q)'
    BY <2>6 DEF RestoreFails, Condemned, Tally, IsNext
  <2>7. ASSUME NEW a \in Archive, NEW d \in Damages, RestoreTimesOut(q, a, d)
        PROVE  InHand(q)'
    BY <2>7 DEF RestoreTimesOut, Condemned, Tally, IsNext
  <2>8. CASE UnmountFails(q)
    BY <2>8 DEF UnmountFails, machine, result, Condemned, Orphans, Wanted
  <2>9. CASE PoweroffFails(q)
    BY <2>9, InHandAfterForget DEF PoweroffFails
  <2>10. CASE Kill(q)
    BY <2>10, InHandAfterForget DEF Kill, Interrupt
  <2>11. ASSUME NEW a \in Archive, ReadRaises(q, a)
         PROVE  InHand(q)'
    BY <2>11 DEF ReadRaises, machine, Condemned, Tally
  <2>12. QED
    BY <1>5, <2>11, <2>1, <2>2, <2>3, <2>4, <2>5, <2>6, <2>7, <2>8, <2>9, <2>10 DEF Fault
<1>6. CASE PowerLoss
  BY <1>6, InHandAfterForget DEF PowerLoss, Interrupt
<1>7. ASSUME NEW c \in Configs, Begin(q, c)
      PROVE  InHand(q)'
  BY <1>3, <1>7 DEF Begin, InHand, Busy, Goto, TypeOK, Condemned
<1>8. ASSUME NEW v \in VMID, MakeByHand(v)
      PROVE  InHand(q)'
  <2>1. /\ guest[v] = NoGuest
        /\ guest' = [guest EXCEPT ![v] = HandMadeGuest]
        /\ UNCHANGED <<mounted, run>>
    BY <1>8 DEF MakeByHand
  <2>2. \A w \in VMID : guest'[w] = guest[w] \/ (guest[w] = NoGuest /\ guest'[w] = HandMadeGuest)
    BY <1>3, <2>1 DEF TypeOK
  <2>3. Orphans(q)' \subseteq Orphans(q)
    BY <2>1, <2>2 DEF Orphans, Wanted, HandMadeGuest, run
  <2>4. NoGuest.conf # "standby"
    BY DEF NoGuest
  <2>5. \A a : Restored(a) # NoGuest /\ Quiet(Restored(a)) # NoGuest
    BY DEF Restored, NoGuest, Quiet
  <2>6. \A a \in backups[q] \cup todo[q] : a.vmid \in VMID
    BY <1>3 DEF TypeOK, Archive
  <2>7. /\ \A w \in orphans[q] : guest'[w].conf = "standby"
        /\ pc[q] = "onboot" => \A a \in todo[q] : IsNext(a, todo[q]) => guest'[a.vmid] = Restored(a)
        /\ pc[q] \in {"restore", "onboot", "unmount", "verdict"} /\ ~cfg[q].dry_run =>
             \A a \in backups[q] : a.vmid \in restored[q] => guest'[a.vmid] = Quiet(Restored(a))
    BY <1>3, <2>2, <2>4, <2>5, <2>6 DEF TypeOK, InHand
  <2>8. QED
    BY <1>3, <2>1, <2>3, <2>7 DEF InHand, Busy, IsNext, run, result
<1>9. CASE UNCHANGED <<guest, mounted, run>>
  BY <1>3, <1>9 DEF InHand, Busy, Orphans, Wanted, IsNext, run, result
<1>10. QED
  BY <1>4, <1>5, <1>6, <1>7, <1>8, <1>9
     DEF Alone, Next, Around, Schedule, PowerCut, PowerDown, Backup, Prune, RemoveFromMain, Wake,
         vars, machine

\* With one run at a time the guests it is done with are as it left them and
\* its mount is there: the inductive invariant behind the next two theorems.
THEOREM OrderlyInvariant == Alone /\ Spec => []Orderly
<1>1. ASSUME Alone
      PROVE  Orderly /\ [Next]_vars => Orderly'
  BY <1>1, OrderlyStep
<1>2. Alone => (Spec => []Orderly)
  <2>1. SUFFICES ASSUME Alone PROVE Spec => []Orderly
    OBVIOUS
  <2>2. QED
    BY <1>1, <2>1, OrderlyInit, PTL DEF Spec
<1>3. QED
  BY <1>2

\* With one run at a time the share stays mounted while a real run uses it.
THEOREM ShareHeld == Alone /\ Spec => []ShareHeldWhileInUse
<1>1. Orderly => ShareHeldWhileInUse
  BY DEF Orderly, InHand, ShareHeldWhileInUse
<1>2. QED
  BY <1>1, OrderlyInvariant, PTL

\* With one run at a time the node asks for its own poweroff only when every
\* guest is what the run wanted of it.
THEOREM PowerOffSafe == Alone /\ Spec => PowerOffMeansRefreshed
<1> DEFINE Refreshed(p) == pc[p] = "verdict" /\ backups[p] # {} /\ \A v \in VMID : AsWanted(p, v)
<1>1. ASSUME Orderly, [Next]_vars, power = "on", power' = "stopping"
      PROVE  \E p \in Proc : Refreshed(p)
  <2>1. PICK p \in Proc : Finish(p) /\ PowersOff(p)
    <3>1. \E p \in Proc : Finish(p)
      BY <1>1
         DEF Next, Advance, Fault, Around, Schedule, CheckMount, Mount, Scan, ReadConfig,
             NothingFound, Plan, DestroyOrphan, OrphansDone, RestoreGuest, RestoreNothing,
             RestoreDry, SetOnboot, SetOnbootFails, RestoreDone, Unmount, MountFails,
             ListingFails, ReadRaises, DestroyFails, RestoreFails, RestoreTimesOut,
             UnmountFails, PoweroffFails, Kill, PowerCut, PowerDown, PowerLoss, Backup, Prune,
             RemoveFromMain, MakeByHand, Begin, Wake, vars, machine
    <3>2. QED
      BY <1>1, <3>1 DEF Finish
  <2>2. /\ pc[p] = "verdict" /\ ~raised[p] /\ ~cfg[p].dry_run
        /\ failed[p] = {} /\ restored[p] # {}
    BY <2>1 DEF Finish, PowersOff, Ok
  <2>3. /\ backups[p] # {}
        /\ \A a \in backups[p] : a.vmid \in restored[p]
    BY <1>1, <2>2 DEF Orderly, Bookkeeping, Tally, Wanted
  <2>4. \A a \in backups[p] : guest[a.vmid] = Quiet(Restored(a))
    BY <1>1, <2>2, <2>3 DEF Orderly, InHand
  <2>5. cfg[p].remove_orphans => Orphans(p) = {}
    BY <1>1, <2>2, <2>3 DEF Orderly, InHand
  <2>6. QED
    BY <2>2, <2>3, <2>4, <2>5 DEF AsWanted
<1>2. Orderly /\ [Next]_vars =>
        [power = "on" /\ power' = "stopping" => \E p \in Proc : Refreshed(p)]_vars
  BY <1>1
<1>3. QED
  BY <1>2, OrderlyInvariant, PTL DEF Spec, PowerOffMeansRefreshed
=============================================================================
