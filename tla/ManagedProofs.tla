--------------------------- MODULE ManagedProofs ---------------------------
(***************************************************************************)
(* What the steps of the managed reconciler preserve, whatever controller  *)
(* they belong to: types for any number of processes, ManagedInv for a     *)
(* sole worker.  The proofs about a controller cite these lemmas.          *)
(***************************************************************************)
EXTENDS Managed, TLAPS

USE ManagedAssumption

(***************************************************************************)
(* The records a step builds, written out.                                 *)
(***************************************************************************)
LEMMA AtFields ==
  ASSUME NEW c \in Copy, NEW v
  PROVE  At(c, v) = [deleting |-> c.deleting, finalizer |-> c.finalizer,
                     ready |-> c.ready, spec |-> c.spec, version |-> v]
BY DEF At, Copy

LEMMA FinalizerFields ==
  ASSUME NEW c \in Copy, NEW b
  PROVE  [c EXCEPT !.finalizer = b] =
           [deleting |-> c.deleting, finalizer |-> b,
            ready |-> c.ready, spec |-> c.spec, version |-> c.version]
BY DEF Copy

LEMMA ReadyCopyFields ==
  ASSUME NEW c \in Copy, NEW b
  PROVE  [c EXCEPT !.ready = b] =
           [deleting |-> c.deleting, finalizer |-> c.finalizer,
            ready |-> b, spec |-> c.spec, version |-> c.version]
BY DEF Copy

LEMMA CopyFields ==
  ASSUME NEW c \in Copy
  PROVE  /\ c.deleting \in BOOLEAN /\ c.finalizer \in BOOLEAN /\ c.ready \in BOOLEAN
         /\ c.spec \in Specs \cup {NoSpec}
         /\ c.version \in {"latest", "outdated", "gone"}
BY DEF Copy

LEMMA ResourceFields ==
  ASSUME NEW r \in Resource
  PROVE  /\ r.exists \in BOOLEAN /\ r.deleting \in BOOLEAN /\ r.finalizer \in BOOLEAN
         /\ r.ready \in BOOLEAN /\ r.spec \in Specs \cup {NoSpec}
BY DEF Resource

LEMMA HeldFields ==
  ASSUME NEW r \in Resource, NEW b
  PROVE  [r EXCEPT !.finalizer = b] =
           [exists |-> r.exists, deleting |-> r.deleting, finalizer |-> b,
            ready |-> r.ready, spec |-> r.spec]
BY DEF Resource

LEMMA DeletingFields ==
  ASSUME NEW r \in Resource, NEW b
  PROVE  [r EXCEPT !.deleting = b] =
           [exists |-> r.exists, deleting |-> b, finalizer |-> r.finalizer,
            ready |-> r.ready, spec |-> r.spec]
BY DEF Resource

LEMMA ReadyFields ==
  ASSUME NEW r \in Resource, NEW b
  PROVE  [r EXCEPT !.ready = b] =
           [exists |-> r.exists, deleting |-> r.deleting, finalizer |-> r.finalizer,
            ready |-> b, spec |-> r.spec]
BY DEF Resource

(***************************************************************************)
(* Seen changes nothing of a copy but its version.                         *)
(***************************************************************************)
LEMMA SeenFields ==
  ASSUME ManagedTypeOK, NEW q \in Procs
  PROVE  /\ Seen(q) \in Copy
         /\ Seen(q).deleting = managed[q].deleting
         /\ Seen(q).finalizer = managed[q].finalizer
         /\ Seen(q).ready = managed[q].ready
         /\ Seen(q).spec = managed[q].spec
         /\ Seen(q).version = IF ~resource'.exists THEN "gone"
                              ELSE IF Current(q) /\ resource' # resource THEN "outdated"
                              ELSE managed[q].version
<1> DEFINE v == IF ~resource'.exists THEN "gone"
                ELSE IF Current(q) /\ resource' # resource THEN "outdated"
                ELSE managed[q].version
<1>1. managed[q] \in Copy
  BY DEF ManagedTypeOK
<1>2. v \in {"latest", "outdated", "gone"}
  BY <1>1, CopyFields
<1>3. Seen(q) = At(managed[q], v)
  BY DEF Seen
<1>4. Seen(q) = [deleting |-> managed[q].deleting, finalizer |-> managed[q].finalizer,
                 ready |-> managed[q].ready, spec |-> managed[q].spec, version |-> v]
  BY <1>1, <1>3, AtFields
<1> HIDE DEF v
<1>5. /\ Seen(q) \in Copy
      /\ Seen(q).deleting = managed[q].deleting
      /\ Seen(q).finalizer = managed[q].finalizer
      /\ Seen(q).ready = managed[q].ready
      /\ Seen(q).spec = managed[q].spec
      /\ Seen(q).version = v
  BY <1>1, <1>2, <1>4, CopyFields DEF Copy
<1> QED
  BY <1>5 DEF v

(***************************************************************************)
(* The copy of a process that is not at work stays empty.                  *)
(***************************************************************************)
LEMMA NoCopySeen ==
  ASSUME ManagedTypeOK, NEW q \in Procs, managed[q] = NoCopy
  PROVE  Seen(q) = NoCopy
BY SeenFields, CopyFields DEF NoCopy, Current, Copy

LEMMA NoCopyType == NoCopy \in Copy /\ NoResource \in Resource
BY DEF NoCopy, NoResource, Copy, Resource

-----------------------------------------------------------------------------
(* Types *)

LEMMA WriteType ==
  ASSUME ManagedTypeOK, NEW p \in Procs, NEW o,
         NEW new \in Resource, NEW copy \in Copy, Write(p, o, new, copy)
  PROVE  /\ resource' \in Resource
         /\ managed' \in [Procs -> Copy]
         /\ managed'[p] = copy
         /\ \A q \in Procs \ {p} : managed'[q] = Seen(q)
<1>1. resource' \in Resource
  BY DEF Write, ManagedTypeOK
<1>2. \A q \in Procs : Seen(q) \in Copy
  BY SeenFields
<1> QED
  BY <1>1, <1>2 DEF Write

(***************************************************************************)
(* Goto moves one process and leaves the others where they are.            *)
(***************************************************************************)
LEMMA GotoStep ==
  ASSUME ManagedTypeOK, NEW p \in Procs, NEW l, Goto(p, l)
  PROVE  /\ (pc = [q \in Procs |-> pc[q]])'
         /\ pc'[p] = l
         /\ \A q \in Procs \ {p} : pc'[q] = pc[q]
BY DEF Goto, ManagedTypeOK

(***************************************************************************)
(* What each step does to the copies, field by field.                      *)
(***************************************************************************)
LEMMA StartStep ==
  ASSUME ManagedTypeOK, NEW p \in Procs, Start(p)
  PROVE  /\ ManagedTypeOK'
         /\ pc'[p] = IF resource.deleting /\ resource.spec.policy = "Orphan"
                     THEN "finalize" ELSE "connect"
         /\ \A q \in Procs \ {p} : pc'[q] = pc[q] /\ managed'[q] = managed[q]
         /\ managed'[p].deleting = resource.deleting
         /\ managed'[p].finalizer = resource.finalizer
         /\ managed'[p].ready = resource.ready
         /\ managed'[p].spec = resource.spec
         /\ managed'[p].version = "latest"
<1> DEFINE copy == [deleting |-> resource.deleting, finalizer |-> resource.finalizer,
                    ready |-> resource.ready, spec |-> resource.spec,
                    version |-> "latest"]
<1>1. managed' = [managed EXCEPT ![p] = copy] /\ UNCHANGED <<resource, leader>>
  BY DEF Start
<1>2. copy \in Copy
  <2>1. resource \in Resource
    BY DEF ManagedTypeOK
  <2> QED
    BY <2>1, ResourceFields DEF Copy
<1> HIDE DEF copy
<1>3. managed'[p] = copy /\ \A q \in Procs \ {p} : managed'[q] = managed[q]
  BY <1>1 DEF ManagedTypeOK
<1>4. /\ (pc = [q \in Procs |-> pc[q]])'
      /\ pc'[p] = IF resource.deleting /\ resource.spec.policy = "Orphan"
                  THEN "finalize" ELSE "connect"
      /\ \A q \in Procs \ {p} : pc'[q] = pc[q]
  BY GotoStep DEF Start
<1>5. ManagedTypeOK'
  BY <1>1, <1>2, <1>4 DEF ManagedTypeOK
<1> QED
  BY <1>3, <1>4, <1>5 DEF copy

LEMMA AddFinalizerStep ==
  ASSUME ManagedTypeOK, NEW p \in Procs, NEW o, NEW next, AddFinalizer(p, o, next)
  PROVE  /\ ManagedTypeOK'
         /\ pc'[p] = "updateStatus" \/ (pc'[p] = next /\ managed'[p].finalizer)
         /\ \A q \in Procs \ {p} :
              pc'[q] = pc[q] /\ (managed'[q] = Seen(q) \/ managed'[q] = managed[q])
         /\ managed'[p].deleting = managed[p].deleting
         /\ managed'[p].ready = managed[p].ready
         /\ managed'[p].spec = managed[p].spec
         /\ resource'.exists = resource.exists
         /\ resource'.deleting = resource.deleting
         /\ resource'.ready = resource.ready
         /\ resource'.spec = resource.spec
         /\ leader' = leader
         /\ \/ /\ resource' = resource
               /\ managed'[p].finalizer = managed[p].finalizer
               /\ managed'[p].version = managed[p].version
            \/ /\ Current(p) /\ ~managed[p].finalizer
               /\ resource'.finalizer
               /\ \/ managed'[p].version = "outdated" /\ ~managed'[p].finalizer
                  \/ managed'[p].version = "latest" /\ managed'[p].finalizer
<1>1. managed[p] \in Copy /\ resource \in Resource
  BY DEF ManagedTypeOK
<1>2. CASE managed[p].finalizer
  <2>1. Goto(p, next) /\ UNCHANGED <<resource, managed, leader>>
    BY <1>2 DEF AddFinalizer
  <2> QED
    BY <1>2, <2>1, GotoStep DEF ManagedTypeOK
<1>3. CASE ~managed[p].finalizer
  <2> DEFINE accepted == Current(p) /\ o = "ok"
             version == IF Current(p) /\ o = "writeLost" THEN "outdated"
                        ELSE managed[p].version
             held == [resource EXCEPT !.finalizer = TRUE]
             finalized == [managed[p] EXCEPT !.finalizer = accepted]
  <2>1. Write(p, o, held, At(finalized, version)) /\ Continue(p, accepted, next)
        /\ UNCHANGED leader
    BY <1>3 DEF AddFinalizer
  <2>2. held \in Resource
    BY <1>1, HeldFields, ResourceFields DEF Resource
  <2>3. accepted \in BOOLEAN /\ version \in {"latest", "outdated", "gone"}
    BY <1>1, CopyFields
  <2>4. finalized = [deleting |-> managed[p].deleting, finalizer |-> accepted,
                     ready |-> managed[p].ready, spec |-> managed[p].spec,
                     version |-> managed[p].version]
    BY <1>1, FinalizerFields
  <2> HIDE DEF accepted, version, held, finalized
  <2>5. finalized \in Copy
    BY <1>1, <2>3, <2>4, CopyFields DEF Copy
  <2>6. At(finalized, version) = [deleting |-> managed[p].deleting, finalizer |-> accepted,
                                  ready |-> managed[p].ready, spec |-> managed[p].spec,
                                  version |-> version]
    BY <2>4, <2>5, AtFields
  <2>7. At(finalized, version) \in Copy
    BY <1>1, <2>3, <2>6, CopyFields DEF Copy
  <2>8. /\ resource' \in Resource
        /\ managed' \in [Procs -> Copy]
        /\ managed'[p] = At(finalized, version)
        /\ \A q \in Procs \ {p} : managed'[q] = Seen(q)
    BY <2>1, <2>2, <2>7, WriteType
  <2>9. /\ (pc = [q \in Procs |-> pc[q]])'
        /\ pc'[p] = IF accepted THEN next ELSE "updateStatus"
        /\ \A q \in Procs \ {p} : pc'[q] = pc[q]
    BY <2>1, GotoStep DEF Continue
  <2>10. /\ managed'[p].deleting = managed[p].deleting
         /\ managed'[p].ready = managed[p].ready
         /\ managed'[p].spec = managed[p].spec
         /\ managed'[p].finalizer = accepted
         /\ managed'[p].version = version
    BY <2>6, <2>8
  <2>11. ManagedTypeOK'
    BY <2>1, <2>8, <2>9 DEF ManagedTypeOK
  <2>12. /\ held.exists = resource.exists /\ held.deleting = resource.deleting
         /\ held.ready = resource.ready /\ held.spec = resource.spec /\ held.finalizer
    BY <1>1, HeldFields DEF held
  <2>13. resource' = IF Current(p) /\ Applied(o) THEN held ELSE resource
    BY <2>1 DEF Write
  <2>14. managed[p].finalizer = FALSE
    BY <1>1, <1>3, CopyFields
  <2>15. ASSUME Current(p) /\ Applied(o)
         PROVE  /\ resource' = held
                /\ \/ managed'[p].version = "outdated" /\ ~managed'[p].finalizer
                   \/ managed'[p].version = "latest" /\ managed'[p].finalizer
    BY <2>10, <2>13, <2>15 DEF accepted, version, Applied, Current
  <2>16. ASSUME ~(Current(p) /\ Applied(o))
         PROVE  /\ resource' = resource
                /\ managed'[p].finalizer = managed[p].finalizer
                /\ managed'[p].version = managed[p].version
    BY <2>10, <2>13, <2>14, <2>16 DEF accepted, version, Applied
  <2>17. pc'[p] = "updateStatus" \/ (pc'[p] = next /\ managed'[p].finalizer)
    BY <2>3, <2>9, <2>10
  <2>18. /\ resource'.exists = resource.exists
         /\ resource'.deleting = resource.deleting
         /\ resource'.ready = resource.ready
         /\ resource'.spec = resource.spec
    BY <2>12, <2>15, <2>16
  <2>19. \/ /\ resource' = resource
            /\ managed'[p].finalizer = managed[p].finalizer
            /\ managed'[p].version = managed[p].version
         \/ /\ Current(p) /\ ~managed[p].finalizer
            /\ resource'.finalizer
            /\ \/ managed'[p].version = "outdated" /\ ~managed'[p].finalizer
               \/ managed'[p].version = "latest" /\ managed'[p].finalizer
    <3>1. CASE Current(p) /\ Applied(o)
      BY <2>12, <2>14, <2>15, <3>1
    <3>2. CASE ~(Current(p) /\ Applied(o))
      BY <2>16, <3>2
    <3> QED
      BY <3>1, <3>2
  <2> QED
    BY <2>1, <2>8, <2>9, <2>10, <2>11, <2>17, <2>18, <2>19
<1> QED
  BY <1>2, <1>3

LEMMA RemoveFinalizerStep ==
  ASSUME ManagedTypeOK, NEW p \in Procs, NEW o, RemoveFinalizer(p, o)
  PROVE  /\ ManagedTypeOK'
         /\ pc[p] = "finalize"
         /\ \A q \in Procs \ {p} : pc'[q] = pc[q] /\ managed'[q] = Seen(q)
         /\ leader' = leader
         /\ \/ resource' = resource /\ managed'[p].version = managed[p].version
            \/ resource' = resource /\ pc'[p] = "idle"
            \/ Current(p) /\ resource' = NoResource /\ managed'[p].version = "gone"
         /\ \/ pc'[p] = "idle" /\ managed'[p] = NoCopy
            \/ /\ pc'[p] = "updateStatus"
               /\ managed'[p].deleting = managed[p].deleting
               /\ managed'[p].finalizer = managed[p].finalizer
               /\ managed'[p].spec = managed[p].spec
<1> DEFINE accepted == o = "ok" /\ (Current(p) \/ ~resource.exists)
           version == IF Current(p) /\ Applied(o) THEN "gone" ELSE managed[p].version
           copy == IF accepted THEN NoCopy ELSE At(managed[p], version)
<1>1. managed[p] \in Copy
  BY DEF ManagedTypeOK
<1>2. /\ pc[p] = "finalize"
      /\ Write(p, o, NoResource, copy)
      /\ Goto(p, IF accepted THEN "idle" ELSE "updateStatus")
      /\ leader' = leader
  BY DEF RemoveFinalizer
<1>3. version \in {"latest", "outdated", "gone"}
  BY <1>1, CopyFields
<1> HIDE DEF version
<1>4. At(managed[p], version) =
        [deleting |-> managed[p].deleting, finalizer |-> managed[p].finalizer,
         ready |-> managed[p].ready, spec |-> managed[p].spec, version |-> version]
  BY <1>1, AtFields
<1>5. At(managed[p], version) \in Copy
  BY <1>1, <1>3, <1>4, CopyFields DEF Copy
<1>6. copy \in Copy
  BY <1>5, NoCopyType
<1> HIDE DEF copy
<1>7. /\ resource' \in Resource
      /\ managed' \in [Procs -> Copy]
      /\ managed'[p] = copy
      /\ \A q \in Procs \ {p} : managed'[q] = Seen(q)
  BY <1>2, <1>6, NoCopyType, WriteType
<1>8. /\ (pc = [q \in Procs |-> pc[q]])'
      /\ pc'[p] = IF accepted THEN "idle" ELSE "updateStatus"
      /\ \A q \in Procs \ {p} : pc'[q] = pc[q]
  BY <1>2, GotoStep
<1>9. resource' = IF Current(p) /\ Applied(o) THEN NoResource ELSE resource
  BY <1>2 DEF Write
<1>10. ManagedTypeOK'
  BY <1>2, <1>7, <1>8 DEF ManagedTypeOK
<1>11. CASE accepted
  <2>1. pc'[p] = "idle" /\ managed'[p] = NoCopy /\ managed'[p].version = "gone"
    BY <1>7, <1>8, <1>11 DEF copy, NoCopy
  <2>2. resource' = resource \/ (Current(p) /\ resource' = NoResource)
    BY <1>9
  <2> QED
    BY <1>2, <1>7, <1>8, <1>10, <2>1, <2>2
<1>12. CASE ~accepted
  <2>1. /\ pc'[p] = "updateStatus"
        /\ managed'[p].deleting = managed[p].deleting
        /\ managed'[p].finalizer = managed[p].finalizer
        /\ managed'[p].spec = managed[p].spec
        /\ managed'[p].version = version
    BY <1>4, <1>7, <1>8, <1>12 DEF copy
  <2>2. \/ resource' = resource /\ managed'[p].version = managed[p].version
        \/ Current(p) /\ resource' = NoResource /\ managed'[p].version = "gone"
    BY <1>9, <2>1 DEF version
  <2> QED
    BY <1>2, <1>7, <1>8, <1>10, <2>1, <2>2
<1> QED
  BY <1>11, <1>12

LEMMA UpdateStatusStep ==
  ASSUME ManagedTypeOK, NEW p \in Procs, NEW o, UpdateStatus(p, o)
  PROVE  /\ ManagedTypeOK'
         /\ pc[p] = "updateStatus"
         /\ pc'[p] = "idle" /\ managed'[p] = NoCopy
         /\ \A q \in Procs \ {p} : pc'[q] = pc[q] /\ managed'[q] = Seen(q)
         /\ leader' = leader
         /\ resource'.exists = resource.exists
         /\ resource'.deleting = resource.deleting
         /\ resource'.finalizer = resource.finalizer
         /\ resource'.spec = resource.spec
         /\ \/ resource'.ready = resource.ready
            \/ Current(p) /\ resource'.ready = managed[p].ready
<1> DEFINE reported == [resource EXCEPT !.ready = managed[p].ready]
<1>1. managed[p] \in Copy /\ resource \in Resource
  BY DEF ManagedTypeOK
<1>2. /\ pc[p] = "updateStatus"
      /\ Write(p, o, reported, NoCopy)
      /\ Goto(p, "idle")
      /\ leader' = leader
  BY DEF UpdateStatus
<1>3. reported = [exists |-> resource.exists, deleting |-> resource.deleting,
                  finalizer |-> resource.finalizer, ready |-> managed[p].ready,
                  spec |-> resource.spec]
  BY <1>1, ReadyFields
<1> HIDE DEF reported
<1>4. reported \in Resource
  BY <1>1, <1>3, ResourceFields, CopyFields DEF Resource
<1>5. /\ resource' \in Resource
      /\ managed' \in [Procs -> Copy]
      /\ managed'[p] = NoCopy
      /\ \A q \in Procs \ {p} : managed'[q] = Seen(q)
  BY <1>2, <1>4, NoCopyType, WriteType
<1>6. \/ resource' = reported /\ Current(p)
      \/ resource' = resource
  BY <1>2 DEF Write
<1>7. /\ (pc = [q \in Procs |-> pc[q]])'
      /\ pc'[p] = "idle"
      /\ \A q \in Procs \ {p} : pc'[q] = pc[q]
  BY <1>2, GotoStep
<1> QED
  BY <1>2, <1>3, <1>5, <1>6, <1>7 DEF ManagedTypeOK

LEMMA StopStep ==
  ASSUME ManagedTypeOK, NEW p \in Procs, Stop(p)
  PROVE  /\ ManagedTypeOK'
         /\ pc'[p] = "idle" /\ managed'[p] = NoCopy
         /\ \A q \in Procs \ {p} : pc'[q] = pc[q] /\ managed'[q] = managed[q]
         /\ resource' = resource
         /\ leader' = IF leader = p THEN NoProc ELSE leader
<1>1. /\ Goto(p, "idle")
      /\ managed' = [managed EXCEPT ![p] = NoCopy]
      /\ leader' = IF leader = p THEN NoProc ELSE leader
      /\ resource' = resource
  BY DEF Stop
<1> QED
  BY <1>1, NoCopyType, GotoStep DEF ManagedTypeOK

LEMMA UserCreateStep ==
  ASSUME ManagedTypeOK, UserCreate
  PROVE  /\ ManagedTypeOK'
         /\ UNCHANGED <<pc, leader>>
         /\ \A q \in Procs : managed'[q] = Seen(q)
         /\ ~resource.exists
         /\ resource'.exists /\ ~resource'.deleting /\ ~resource'.finalizer
         /\ ~resource'.ready
         /\ resource'.spec \in Specs
<1>1. PICK s \in Specs : resource' = [NoResource EXCEPT !.exists = TRUE, !.spec = s]
  BY DEF UserCreate
<1>2. resource' = [exists |-> TRUE, deleting |-> FALSE, finalizer |-> FALSE,
                   ready |-> FALSE, spec |-> s]
  BY <1>1 DEF NoResource
<1>3. resource' \in Resource
  BY <1>2 DEF Resource
<1>4. \A q \in Procs : Seen(q) \in Copy
  BY SeenFields
<1> QED
  BY <1>2, <1>3, <1>4 DEF UserCreate, ManagedTypeOK

LEMMA UserDeleteStep ==
  ASSUME ManagedTypeOK, UserDelete
  PROVE  /\ ManagedTypeOK'
         /\ UNCHANGED <<pc, leader>>
         /\ \A q \in Procs : managed'[q] = Seen(q)
         /\ resource.exists /\ ~resource.deleting
         /\ \/ /\ resource.finalizer
               /\ resource'.exists /\ resource'.deleting /\ resource'.finalizer
               /\ resource'.spec = resource.spec
            \/ ~resource.finalizer /\ resource' = NoResource
<1> DEFINE marked == [resource EXCEPT !.deleting = TRUE]
<1>1. resource \in Resource
  BY DEF ManagedTypeOK
<1>2. marked = [exists |-> resource.exists, deleting |-> TRUE,
                finalizer |-> resource.finalizer, ready |-> resource.ready,
                spec |-> resource.spec]
  BY <1>1, DeletingFields
<1>3. marked \in Resource
  BY <1>1, <1>2, ResourceFields DEF Resource
<1>4. /\ resource.exists /\ ~resource.deleting
      /\ resource' = IF resource.finalizer THEN marked ELSE NoResource
      /\ managed' = [q \in Procs |-> Seen(q)]
      /\ UNCHANGED <<pc, leader>>
  BY DEF UserDelete
<1> HIDE DEF marked
<1>5. \A q \in Procs : Seen(q) \in Copy
  BY SeenFields
<1>6. ManagedTypeOK'
  BY <1>3, <1>4, <1>5, NoCopyType DEF ManagedTypeOK
<1> QED
  BY <1>1, <1>2, <1>4, <1>5, <1>6, ResourceFields

-----------------------------------------------------------------------------
(* Specs *)

(***************************************************************************)
(* Whoever works, works for a spec that a user gave.  For the steps of the *)
(* reconciler and of the processes:                                        *)
(***************************************************************************)
LEMMA ManagedSpec ==
  ASSUME ManagedTypeOK, SpecInv, NEW p \in Procs, NEW o, NEW next,
         \/ Start(p) \/ AddFinalizer(p, o, next) \/ RemoveFinalizer(p, o)
         \/ UpdateStatus(p, o) \/ Stop(p) \/ Elect(p)
  PROVE  SpecInv'
<1> USE SeenFields DEF SpecInv, Busy
<1>1. CASE Start(p)
  <2>1. resource.exists /\ resource' = resource /\ pc[p] = "idle"
    BY <1>1 DEF Start
  <2> QED
    BY <1>1, <2>1, StartStep
<1>2. CASE AddFinalizer(p, o, next)
  <2>1. pc[p] = "addFinalizer"
    BY <1>2 DEF AddFinalizer
  <2> QED
    BY <1>2, <2>1, AddFinalizerStep
<1>3. CASE RemoveFinalizer(p, o)
  BY <1>3, RemoveFinalizerStep DEF NoResource
<1>4. CASE UpdateStatus(p, o)
  BY <1>4, UpdateStatusStep
<1>5. CASE Stop(p)
  BY <1>5, StopStep
<1>6. CASE Elect(p)
  BY <1>6 DEF Elect
<1> QED
  BY <1>1, <1>2, <1>3, <1>4, <1>5, <1>6

LEMMA UserSpec ==
  ASSUME ManagedTypeOK, SpecInv, UserCreate \/ UserDelete
  PROVE  SpecInv'
BY SeenFields, UserCreateStep, UserDeleteStep DEF SpecInv, Busy, NoResource

-----------------------------------------------------------------------------
(* The invariant of a sole worker *)

LEMMA NoCopyInv ==
  ASSUME NEW q \in Procs, pc[q] = "idle", managed[q] = NoCopy
  PROVE  CopyInv(q)
BY DEF CopyInv, Busy, Engaged, NoCopy

LEMMA NoCopyInvNext ==
  ASSUME NEW q \in Procs, pc'[q] = "idle", managed'[q] = NoCopy
  PROVE  CopyInv(q)'
BY DEF CopyInv, Busy, Engaged, NoCopy

(***************************************************************************)
(* While one process works, the others hold nothing.                       *)
(***************************************************************************)
LEMMA OthersIdle ==
  ASSUME ManagedTypeOK, ManagedInv, SoleWorker,
         NEW p \in Procs, Busy(p) \/ MayWork(p), NEW q \in Procs \ {p}
  PROVE  pc[q] = "idle" /\ managed[q] = NoCopy /\ Seen(q) = NoCopy
<1>1. LeaderElection
  BY DEF SoleWorker
<1>2. leader = p
  BY <1>1 DEF ManagedInv, LeaderInv, MayWork
<1>3. pc[q] = "idle"
  BY <1>1, <1>2 DEF ManagedInv, LeaderInv, Busy
<1>4. managed[q] = NoCopy
  BY <1>3 DEF ManagedInv, CopyInv, Busy
<1> QED
  BY <1>3, <1>4, NoCopySeen

(***************************************************************************)
(* A step of p that leaves the stored resource alone and keeps the copy    *)
(* but for its ready field.                                                *)
(***************************************************************************)
LEMMA LocalInv ==
  ASSUME ManagedTypeOK, ManagedInv, SoleWorker, NEW p \in Procs,
         Engaged(p), pc'[p] # "idle",
         pc'[p] = "finalize" => managed[p].deleting,
         resource' = resource, leader' = leader,
         managed'[p].deleting = managed[p].deleting,
         managed'[p].finalizer = managed[p].finalizer,
         managed'[p].spec = managed[p].spec,
         managed'[p].version = managed[p].version,
         \A q \in Procs \ {p} : pc'[q] = pc[q] /\ managed'[q] = managed[q]
  PROVE  ManagedInv'
<1>1. Busy(p)
  BY DEF Engaged, Busy
<1>2. \A q \in Procs \ {p} : CopyInv(q)'
  BY <1>1, OthersIdle, NoCopyInvNext
<1>3. CopyInv(p)'
  BY DEF ManagedInv, CopyInv, Busy, Engaged
<1>4. ResourceInv' /\ LeaderInv'
  BY <1>1 DEF ManagedInv, ResourceInv, LeaderInv, Busy
<1> QED
  BY <1>2, <1>3, <1>4 DEF ManagedInv

LEMMA StartInv ==
  ASSUME ManagedTypeOK, ManagedInv, SoleWorker, NEW p \in Procs, Start(p)
  PROVE  ManagedInv'
<1>1. /\ pc[p] = "idle" /\ resource.exists /\ MayWork(p)
      /\ resource' = resource /\ leader' = leader
  BY DEF Start
<1>2. \A q \in Procs \ {p} : CopyInv(q)'
  BY <1>1, OthersIdle, StartStep, NoCopyInvNext
<1>3. CopyInv(p)'
  BY <1>1, StartStep DEF ManagedInv, ResourceInv, CopyInv, Busy, Engaged
<1>4. ResourceInv' /\ LeaderInv'
  BY <1>1, StartStep DEF ManagedInv, ResourceInv, LeaderInv, MayWork, Busy
<1> QED
  BY <1>2, <1>3, <1>4 DEF ManagedInv

LEMMA AddFinalizerInv ==
  ASSUME ManagedTypeOK, ManagedInv, SoleWorker, NEW p \in Procs, NEW o, NEW next,
         next \notin {"idle", "finalize"}, AddFinalizer(p, o, next)
  PROVE  ManagedInv'
<1>1. pc[p] = "addFinalizer" /\ Busy(p) /\ Engaged(p)
  BY DEF AddFinalizer, Busy, Engaged
<1>2. CopyInv(p)
  BY DEF ManagedInv
<1>3. \A q \in Procs \ {p} : CopyInv(q)'
  BY <1>1, OthersIdle, AddFinalizerStep, NoCopyInvNext
<1>4. CopyInv(p)'
  <2>1. CASE /\ resource' = resource
             /\ managed'[p].finalizer = managed[p].finalizer
             /\ managed'[p].version = managed[p].version
    BY <1>1, <1>2, <2>1, AddFinalizerStep DEF CopyInv, Busy, Engaged
  <2>2. CASE /\ Current(p) /\ ~managed[p].finalizer
             /\ resource'.finalizer
             /\ \/ managed'[p].version = "outdated" /\ ~managed'[p].finalizer
                \/ managed'[p].version = "latest" /\ managed'[p].finalizer
    <3>1. /\ resource'.exists /\ ~managed'[p].deleting
          /\ managed'[p].spec = resource'.spec
          /\ managed'[p].deleting = resource'.deleting
      BY <1>2, <2>2, AddFinalizerStep DEF CopyInv, Current
    <3>2. managed'[p] \in Copy /\ resource' \in Resource
      BY AddFinalizerStep DEF ManagedTypeOK
    <3>3. managed'[p].version = "latest" => managed'[p].finalizer = resource'.finalizer
      BY <2>2, <3>2, CopyFields, ResourceFields
    <3>4. pc'[p] \notin {"idle", "finalize"}
      BY AddFinalizerStep
    <3> QED
      BY <2>2, <3>1, <3>3, <3>4 DEF CopyInv, Busy, Engaged
  <2> QED
    BY <2>1, <2>2, AddFinalizerStep
<1>5. ResourceInv'
  BY <1>2, AddFinalizerStep DEF ManagedInv, ResourceInv, CopyInv, Current
<1>6. LeaderInv'
  BY <1>1, AddFinalizerStep DEF ManagedInv, LeaderInv, Busy
<1> QED
  BY <1>3, <1>4, <1>5, <1>6 DEF ManagedInv

LEMMA RemoveFinalizerInv ==
  ASSUME ManagedTypeOK, ManagedInv, SoleWorker, NEW p \in Procs, NEW o,
         RemoveFinalizer(p, o)
  PROVE  ManagedInv'
<1>1. Busy(p) /\ Engaged(p)
  BY RemoveFinalizerStep DEF Busy, Engaged
<1>2. CopyInv(p)
  BY DEF ManagedInv
<1>3. \A q \in Procs \ {p} : CopyInv(q)'
  BY <1>1, OthersIdle, RemoveFinalizerStep, NoCopyInvNext
<1>4. CopyInv(p)'
  <2>1. CASE pc'[p] = "idle"
    BY <2>1, RemoveFinalizerStep, NoCopyInvNext
  <2>2. CASE pc'[p] # "idle"
    BY <1>2, <2>2, RemoveFinalizerStep DEF CopyInv, Busy, Engaged, NoResource
  <2> QED
    BY <2>1, <2>2
<1>5. ResourceInv'
  BY RemoveFinalizerStep DEF ManagedInv, ResourceInv, NoResource
<1>6. LeaderInv'
  BY <1>1, RemoveFinalizerStep DEF ManagedInv, LeaderInv, Busy
<1> QED
  BY <1>3, <1>4, <1>5, <1>6 DEF ManagedInv

LEMMA UpdateStatusInv ==
  ASSUME ManagedTypeOK, ManagedInv, SoleWorker, NEW p \in Procs, NEW o,
         UpdateStatus(p, o)
  PROVE  ManagedInv'
<1>1. Busy(p)
  BY UpdateStatusStep DEF Busy
<1>2. \A q \in Procs : CopyInv(q)'
  BY <1>1, OthersIdle, UpdateStatusStep, NoCopyInvNext
<1>3. ResourceInv'
  BY UpdateStatusStep DEF ManagedInv, ResourceInv
<1>4. LeaderInv'
  BY UpdateStatusStep DEF ManagedInv, LeaderInv, Busy
<1> QED
  BY <1>2, <1>3, <1>4 DEF ManagedInv

LEMMA StopInv ==
  ASSUME ManagedTypeOK, ManagedInv, SoleWorker, NEW p \in Procs, Stop(p)
  PROVE  ManagedInv'
<1>1. \A q \in Procs \ {p} : CopyInv(q)'
  BY StopStep DEF ManagedInv, CopyInv, Busy, Engaged
<1>2. CopyInv(p)'
  BY StopStep, NoCopyInvNext
<1>3. ResourceInv' /\ LeaderInv'
  BY StopStep DEF ManagedInv, ResourceInv, LeaderInv, Busy
<1> QED
  BY <1>1, <1>2, <1>3 DEF ManagedInv

LEMMA ElectInv ==
  ASSUME ManagedTypeOK, ManagedInv, NEW p \in Procs, Elect(p)
  PROVE  ManagedTypeOK' /\ ManagedInv'
<1>1. /\ LeaderElection /\ leader = NoProc /\ leader' = p
      /\ UNCHANGED <<resource, managed, pc>>
  BY DEF Elect
<1>2. ManagedTypeOK'
  BY <1>1 DEF ManagedTypeOK
<1>3. \A q \in Procs : ~Busy(q)
  BY <1>1 DEF ManagedInv, LeaderInv
<1>4. ResourceInv' /\ LeaderInv' /\ \A q \in Procs : CopyInv(q)'
  BY <1>1, <1>3 DEF ManagedInv, ResourceInv, LeaderInv, CopyInv, Busy, Engaged
<1> QED
  BY <1>2, <1>4 DEF ManagedInv

(***************************************************************************)
(* What users do touches no copy that the finalizer pins.                  *)
(***************************************************************************)
LEMMA UserInv ==
  ASSUME ManagedTypeOK, ManagedInv, UserCreate \/ UserDelete
  PROVE  ManagedInv'
<1>1. UNCHANGED <<pc, leader>> /\ \A q \in Procs : managed'[q] = Seen(q)
  BY UserCreateStep, UserDeleteStep
<1>2. ResourceInv'
  BY UserCreateStep, UserDeleteStep DEF ResourceInv, NoResource
<1>3. ASSUME NEW q \in Procs PROVE CopyInv(q)'
  <2>1. CopyInv(q)
    BY DEF ManagedInv
  <2>2. CASE managed[q] = NoCopy
    <3>1. managed'[q] = NoCopy
      BY <1>1, <2>2, NoCopySeen
    <3>2. pc' = pc
      BY <1>1
    <3> QED
      BY <2>1, <2>2, <3>1, <3>2 DEF CopyInv, Busy, Engaged, NoCopy
  <2>3. CASE managed[q] # NoCopy
    <3>1. Busy(q)
      BY <2>1, <2>3 DEF CopyInv
    <3>2. /\ managed'[q].deleting = managed[q].deleting
          /\ managed'[q].finalizer = managed[q].finalizer
          /\ managed'[q].spec = managed[q].spec
          /\ managed'[q].version = IF ~resource'.exists THEN "gone"
                                   ELSE IF Current(q) /\ resource' # resource THEN "outdated"
                                   ELSE managed[q].version
      BY <1>1, SeenFields
    <3>3. CASE UserCreate
      BY <1>1, <2>1, <3>1, <3>2, <3>3, UserCreateStep
         DEF CopyInv, Busy, Engaged, Current, ManagedInv, ResourceInv
    <3>4. CASE UserDelete
      BY <1>1, <2>1, <3>1, <3>2, <3>4, UserDeleteStep
         DEF CopyInv, Busy, Engaged, Current, NoResource
    <3> QED
      BY <3>3, <3>4
  <2> QED
    BY <2>2, <2>3
<1>4. LeaderInv'
  BY <1>1 DEF ManagedInv, LeaderInv, Busy
<1> QED
  BY <1>2, <1>3, <1>4 DEF ManagedInv

=============================================================================
