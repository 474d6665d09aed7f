--------------------------- MODULE PublicationProofs ---------------------------
(***************************************************************************)
(* Theorems about Publication, for every set of requests, lease, number of *)
(* upstream versions and number of failures.                               *)
(***************************************************************************)
EXTENDS Publication, TLAPS

Told == [kind : Outcomes \cup {"retry"}, id : Nat]

\* The names the actions use are names of stages, outcomes and answers.
LEMMA Names ==
    /\ "idle" \in Stages /\ "acquiring" \in Stages /\ "reading" \in Stages
    /\ "waiting" \in Stages /\ "woken" \in Stages /\ "recheck" \in Stages
    /\ "fetch" \in Stages /\ "fetched" \in Stages /\ "authorize" \in Stages
    /\ "write" \in Stages /\ "receipt" \in Stages /\ "edge" \in Stages
    /\ "edge_only" \in Stages /\ "completing" \in Stages
    /\ "closing" \in Stages /\ "done" \in Stages
    /\ "shared" \in Outcomes /\ "edge_only" \in Outcomes /\ "none" \in Outcomes
    /\ "failed" \in Outcomes /\ "rejected" \in Outcomes /\ "unknown" \in Outcomes
    /\ Retry \in Told
  BY DEF Stages, Outcomes, Retry, Told

\* Waking followers keeps requests well-formed.
LEMMA WokenType ==
    ASSUME NEW r \in [Clients -> RequestType], NEW answer \in Told
    PROVE Woken(r, answer) \in [Clients -> RequestType]
  <1>1. ASSUME NEW q \in RequestType
        PROVE [q EXCEPT !.stage = "woken", !.told = answer] \in RequestType
    BY Names DEF RequestType, Told
  <1> QED BY <1>1 DEF Woken

\* A step of an acquisition preserves the types.
LEMMA AcquireType ==
    ASSUME TypeOK, NEW c \in Clients, Acquire(c)
    PROVE TypeOK'
  <1> USE LeaseAssumption, IdGapsAssumption, Names
  <1>q. req \in [Clients -> RequestType] /\ req[c] \in RequestType
    BY DEF TypeOK
  <1>1. CASE Grant(c)
    <2>1. next' \in Nat /\ row' \in [id : Nat, left : Nat] /\ since' \in Nat \ {0}
      BY <1>1 DEF Grant, TakeRow, TypeOK
    <2>2. Owner(req[c], next') \in RequestType
      <3>1. CASE req[c].mode = "live"
        BY <3>1, <2>1, <1>q DEF Owner, RequestType
      <3>2. CASE req[c].mode # "live"
        BY <3>2, <2>1, <1>q DEF Owner, RequestType
      <3> QED BY <3>1, <3>2
    <2>4. req' \in [Clients -> RequestType]
      BY <1>1, <1>q, <2>2, WokenType DEF Grant, Wake
    <2> QED BY <1>1, <2>1, <2>4 DEF Grant, Wake, TypeOK, NoGroup, Cleared
  <1>2. CASE Busy(c)
    <2>1. req' \in [Clients -> RequestType]
      BY <1>2, <1>q DEF Busy, RequestType
    <2> QED BY <1>2, <2>1 DEF Busy, TypeOK, d1Vars, history
  <1>3. CASE OwnerGone(c)
    <2>1. Again(req[c]) \in RequestType
      BY <1>q DEF Again, RequestType, Told
    <2> QED BY <1>3, <1>q, <2>1 DEF OwnerGone, TypeOK, d1Vars, history
  <1>4. CASE Join(c)
    <2>1. ASSUME NEW r \in [Clients -> RequestType]
          PROVE [r EXCEPT ![c].stage = "waiting"] \in [Clients -> RequestType]
      BY DEF RequestType
    <2>2. Woken(req, Retry) \in [Clients -> RequestType]
      BY <1>q, WokenType
    <2>3. CASE group.id = row.id
      BY <1>4, <1>q, <2>1, <2>3 DEF Join, TypeOK, d1Vars, history
    <2>4. CASE group.id # row.id
      BY <1>4, <2>1, <2>2, <2>4 DEF Join, TypeOK, d1Vars, history, Cleared
    <2> QED BY <2>3, <2>4
  <1>t. Thrown(req[c]) \in RequestType
    BY <1>q DEF Thrown, RequestType
  <1>5. CASE AcquireFails(c)
    BY <1>5, <1>t, <1>q DEF AcquireFails, Fault, TakeRow, TypeOK, poolVars
  <1>6. CASE ReadOwnerFails(c)
    BY <1>6, <1>t, <1>q DEF ReadOwnerFails, Fault, TypeOK, d1Vars, history
  <1> QED BY <1>1, <1>2, <1>3, <1>4, <1>5, <1>6 DEF Acquire

\* So does a step of a request outside an acquisition, up to the renewal.
LEMMA OwnType ==
    ASSUME TypeOK, NEW c \in Clients, Start(c, "read") \/ Start(c, "live")
             \/ Start(c, "background") \/ Follow(c) \/ Own(c)
    PROVE TypeOK'
  <1> USE LeaseAssumption, Names
  <1>q. req \in [Clients -> RequestType] /\ req[c] \in RequestType
    BY DEF TypeOK
  <1>1. ASSUME NEW m \in {"read", "live", "background"}, Start(c, m)
        PROVE TypeOK'
    <2>1. req' \in [Clients -> RequestType]
      BY <1>1, <1>q DEF Start, RequestType, TypeOK
    <2> QED BY <1>1, <2>1 DEF Start, TypeOK, d1Vars, poolVars, history
  <1>2. CASE Follow(c)
    <2>1. Again(req[c]) \in RequestType
      BY <1>q DEF Again, RequestType, Told
    <2>2. edge' \in Nat
      BY <1>2 DEF Follow, TypeOK, Bodies
    <2>3. ASSUME NEW v \in Nat
          PROVE [req EXCEPT ![c].stage = "done", ![c].got = v]
                  \in [Clients -> RequestType]
      BY <1>q DEF RequestType
    <2>4. body.seen \in Nat /\ edge \in Nat
      BY DEF TypeOK, Bodies
    <2>5. req' \in [Clients -> RequestType]
      BY <1>2, <1>q, <2>1, <2>3, <2>4 DEF Follow
    <2> QED BY <1>2, <2>2, <2>5 DEF Follow, TypeOK, d1Vars, poolVars, history
  <1>3. CASE Recheck(c)
    <2>1. req' \in [Clients -> RequestType] /\ edge' \in Nat
      BY <1>3, <1>q DEF Recheck, RequestType, TypeOK, Bodies
    <2> QED BY <1>3, <2>1 DEF Recheck, TypeOK, d1Vars, poolVars, history
  <1>4. CASE Fetch(c)
    <2>1. req' \in [Clients -> RequestType]
      BY <1>4, <1>q DEF Fetch, RequestType, TypeOK
    <2> QED BY <1>4, <2>1 DEF Fetch, TypeOK, d1Vars, poolVars, history
  <1>5. CASE GiveUp(c)
    <2>1. req' \in [Clients -> RequestType]
      BY <1>5, <1>q DEF GiveUp, RequestType
    <2> QED BY <1>5, <2>1 DEF GiveUp, TypeOK, d1Vars, poolVars, history
  <1>6. CASE SendRenewal(c)
    <2>1. req' \in [Clients -> RequestType]
      BY <1>6, <1>q DEF SendRenewal, RequestType
    <2> QED BY <1>6, <2>1 DEF SendRenewal, TypeOK, d1Vars, poolVars, history
  <1>y. Renewed(req[c]) \in RequestType
    BY <1>q DEF Renewed, RequestType
  <1>n. Refused(req[c]) \in RequestType
    <2>1. CASE req[c].stage = "authorize"
      BY <2>1, <1>q DEF Refused, RequestType
    <2>2. CASE req[c].stage # "authorize"
      BY <2>2, <1>q DEF Refused, RequestType
    <2> QED BY <2>1, <2>2
  <1>7. CASE ServeRenewal(c)
    BY <1>7, <1>q, <1>y DEF ServeRenewal, TypeOK, Cleared, history
  <1>8. CASE RefuseRenewal(c)
    BY <1>8, <1>q, <1>n DEF RefuseRenewal, TypeOK, d1Vars, poolVars, history
  <1>9. CASE RenewalFails(c)
    BY <1>9, <1>q, <1>n DEF RenewalFails, Fault, TypeOK, poolVars, history
  <1> QED BY <1>1, <1>2, <1>3, <1>4, <1>5, <1>6, <1>7, <1>8, <1>9 DEF Own

\* A step of a publication preserves the types.
LEMMA PublishType ==
    ASSUME TypeOK, NEW c \in Clients, PublishBody(c)
    PROVE TypeOK'
  <1> USE Names
  <1>q. req \in [Clients -> RequestType] /\ req[c] \in RequestType
    BY DEF TypeOK
  <1>b. [id |-> req[c].cap, seen |-> req[c].seen] \in Bodies
    BY <1>q DEF RequestType, Bodies
  <1>1. CASE Publish(c)
    <2>1. req' \in [Clients -> RequestType]
      BY <1>1, <1>q DEF Publish, RequestType
    <2> QED BY <1>1, <2>1 DEF Publish, TypeOK, d1Vars, poolVars, history
  <1>2. CASE Write(c)
    <2>1. req' \in [Clients -> RequestType]
      BY <1>2, <1>q DEF Write, RequestType
    <2> QED BY <1>2, <2>1, <1>b DEF Write, Store, TypeOK, poolVars
  <1>3. CASE WriteFails(c)
    <2>1. req' \in [Clients -> RequestType]
      BY <1>3, <1>q DEF WriteFails, RequestType
    <2> QED BY <1>3, <2>1, <1>b DEF WriteFails, Fault, Store, TypeOK, poolVars
  <1>4. CASE ReadReceipt(c)
    <2>1. req' \in [Clients -> RequestType]
      BY <1>4, <1>q DEF ReadReceipt, RequestType
    <2> QED BY <1>4, <2>1 DEF ReadReceipt, TypeOK, d1Vars, poolVars, history
  <1>5. CASE ReadReceiptFails(c)
    <2>1. req' \in [Clients -> RequestType]
      BY <1>5, <1>q DEF ReadReceiptFails, RequestType
    <2> QED BY <1>5, <2>1 DEF ReadReceiptFails, Fault, TypeOK, d1Vars, poolVars, history
  <1>6. CASE AuthorizeEdge(c)
    <2>1. req' \in [Clients -> RequestType]
      BY <1>6, <1>q DEF AuthorizeEdge, RequestType
    <2> QED BY <1>6, <2>1 DEF AuthorizeEdge, TypeOK, d1Vars, poolVars, history
  <1>7. CASE AuthorizeEdgeFails(c)
    <2>1. req' \in [Clients -> RequestType]
      BY <1>7, <1>q DEF AuthorizeEdgeFails, RequestType
    <2> QED BY <1>7, <2>1 DEF AuthorizeEdgeFails, Fault, TypeOK, d1Vars, poolVars, history
  <1>8. CASE SkipWrite(c)
    <2>1. ASSUME NEW outcome \in Outcomes
          PROVE [req EXCEPT ![c].stage = "completing", ![c].plan = outcome]
                  \in [Clients -> RequestType]
      BY <1>q DEF RequestType
    <2>2. req' \in [Clients -> RequestType]
      BY <1>8, <2>1 DEF SkipWrite
    <2> QED BY <1>8, <2>2 DEF SkipWrite, TypeOK, d1Vars, poolVars, history
  <1>9. CASE WriteEdge(c)
    <2>1. CASE req[c].stage = "edge"
      BY <1>9, <1>q, <2>1 DEF WriteEdge, RequestType, TypeOK, d1Vars, poolVars, history
    <2>2. CASE req[c].stage # "edge" /\ edge' = req[c].seen
      BY <1>9, <1>q, <2>2 DEF WriteEdge, RequestType, TypeOK, d1Vars, poolVars, history
    <2>3. CASE req[c].stage # "edge" /\ edge' # req[c].seen
      BY <1>9, <1>q, <2>3 DEF WriteEdge, RequestType, TypeOK, d1Vars, poolVars, history
    <2> QED BY <2>1, <2>2, <2>3
  <1> QED BY <1>1, <1>2, <1>3, <1>4, <1>5, <1>6, <1>7, <1>8, <1>9 DEF PublishBody

\* So does a step of a completion.
LEMMA FinishType ==
    ASSUME TypeOK, NEW c \in Clients, Finish(c)
    PROVE TypeOK'
  <1> USE Names
  <1>q. req \in [Clients -> RequestType] /\ req[c] \in RequestType
    BY DEF TypeOK
  <1>a. ASSUME NEW a \in {"accepted", "lost", "unknown"}
        PROVE [req EXCEPT ![c].stage = "done", ![c].ack = a]
                \in [Clients -> RequestType]
    BY <1>q DEF RequestType
  <1>1. CASE Complete(c)
    <2>1. req' \in [Clients -> RequestType]
      BY <1>1, <1>q DEF Complete, RequestType
    <2> QED BY <1>1, <2>1 DEF Complete, TypeOK, d1Vars, poolVars, history
  <1>2. CASE ServeCompletion(c)
    <2> DEFINE ack == IF row.left > 0 THEN "accepted" ELSE "lost"
               answered == [req EXCEPT ![c].stage = "done", ![c].ack = ack]
               answer == IF row.left > 0
                         THEN [kind |-> req[c].plan, id |-> req[c].claim]
                         ELSE Retry
    <2>1. answered \in [Clients -> RequestType]
      <3>1. ack \in {"accepted", "lost", "unknown"}
        OBVIOUS
      <3> QED BY <1>a, <3>1
    <2>2. answer \in Told
      BY <1>q DEF RequestType, Told
    <2>3. req' = answered \/ req' = Woken(answered, answer)
      BY <1>2 DEF ServeCompletion, Wake
    <2>4. req' \in [Clients -> RequestType]
      <3> HIDE DEF answered, answer
      <3> QED BY <2>1, <2>2, <2>3, WokenType
    <2>5. /\ row' = NoRow /\ ended' = ended \cup {req[c].cap}
          /\ group' \in {group, NoGroup} /\ due' \in {due, Cleared}
      BY <1>2 DEF ServeCompletion, RemoveRow, Wake
    <2>6. req[c].cap \in Nat
      BY <1>q DEF RequestType
    <2> QED
      BY <1>2, <2>4, <2>5, <2>6
      DEF ServeCompletion, TypeOK, NoRow, NoGroup, Cleared
  <1>3. CASE RefuseCompletion(c)
    BY <1>3, <1>a DEF RefuseCompletion, TypeOK, d1Vars, poolVars, history
  <1>4. CASE CompletionFails(c)
    <2>1. req[c].cap \in Nat
      BY <1>q DEF RequestType
    <2> QED
      BY <1>4, <1>a, <2>1
      DEF CompletionFails, Fault, RemoveRow, NoRow, TypeOK, poolVars
  <1> QED BY <1>1, <1>2, <1>3, <1>4 DEF Finish

\* So does the disappearance of a worker.
LEMMA DieType ==
    ASSUME TypeOK, NEW c \in Clients, Die(c)
    PROVE TypeOK'
  <1>q. req \in [Clients -> RequestType] /\ req[c] \in RequestType
    BY DEF TypeOK
  <1>1. req' \in [Clients -> RequestType]
    BY <1>q, Names DEF Die, RequestType
  <1>2. [id |-> req[c].cap, seen |-> req[c].seen] \in Bodies
    BY <1>q DEF RequestType, Bodies
  <1> QED BY <1>1, <1>2 DEF Die, Fault, TypeOK, poolVars, history

\* So does everything that is not a step of one request.
LEMMA EnvironmentType ==
    ASSUME TypeOK, Environment
    PROVE TypeOK'
  <1> USE Names
  <1>q. req \in [Clients -> RequestType]
    BY DEF TypeOK
  <1>1. CASE TimerFires
    BY <1>1 DEF TimerFires, TypeOK, d1Vars, history
  <1>2. ASSUME NEW t \in {"current", "stale"}, RunExpiry(t)
        PROVE TypeOK'
    <2>1. req' \in [Clients -> RequestType]
      BY <1>2, <1>q, WokenType DEF RunExpiry
    <2> QED BY <1>2, <2>1 DEF RunExpiry, TypeOK, NoGroup, d1Vars, history
  <1>3. CASE Restart
    <2>1. \A c \in Clients : Thrown(req[c]) \in RequestType
      BY <1>q DEF Thrown, RequestType
    <2>2. req' \in [Clients -> RequestType]
      BY <1>3, <1>q, <2>1 DEF Restart
    <2> QED BY <1>3, <2>2 DEF Restart, Fault, NoGroup, TypeOK, d1Vars, history
  <1>4. ASSUME NEW w \in late, LateWrite(w)
        PROVE TypeOK'
    <2>1. w \in Bodies /\ [id |-> w.id, seen |-> w.seen] \in Bodies
      BY DEF TypeOK, Bodies
    <2> QED BY <1>4, <2>1 DEF LateWrite, Store, TypeOK, poolVars
  <1>5. CASE PruneOwner
    BY <1>5 DEF PruneOwner, NoRow, TypeOK, poolVars, history
  <1>6. CASE PruneBody
    BY <1>6 DEF PruneBody, NoBody, Bodies, TypeOK, poolVars, history
  <1>7. CASE UpstreamChanges
    BY <1>7 DEF UpstreamChanges, TypeOK, d1Vars, poolVars, history
  <1>8. CASE Tick
    <2>1. \A n \in Nat : CountDown(n) \in Nat
      BY DEF CountDown
    <2> QED BY <1>8, <2>1 DEF Tick, TypeOK, history
  <1> QED BY <1>1, <1>2, <1>3, <1>4, <1>5, <1>6, <1>7, <1>8 DEF Environment

\* The types hold initially and every step preserves them.
LEMMA TypeInitial == Init => TypeOK
  <1>1. NewRequest \in RequestType
    BY Names DEF NewRequest, RequestType, Told
  <1> QED BY <1>1 DEF Init, TypeOK, NoRow, NoBody, NoGroup, Bodies

\* Every step keeps the shape: one case per group of actions of Next.
LEMMA TypeStep == TypeOK /\ [Next]_vars => TypeOK'
  <1> SUFFICES ASSUME TypeOK, [Next]_vars PROVE TypeOK'
    OBVIOUS
  <1>1. ASSUME NEW c \in Clients, Request(c) PROVE TypeOK'
    <2>1. ASSUME NEW m \in Modes, Start(c, m) PROVE TypeOK'
      BY <2>1, OwnType, ModesAssumption
    <2> QED
      BY <1>1, <2>1, AcquireType, OwnType, PublishType, FinishType, DieType
      DEF Request
  <1>2. CASE UNCHANGED vars
    BY <1>2 DEF vars, d1Vars, poolVars, history, TypeOK
  <1> QED BY <1>1, <1>2, EnvironmentType DEF Next, Drained

\* TypeOK is an invariant: in particular the countdowns never pass zero, for
\* every lease, and every follower is told something it can act on.
THEOREM TypeCorrect == Spec => []TypeOK
  BY TypeInitial, TypeStep, PTL DEF Spec

--------------------------------------------------------------------------------
(* The order of publications: the inductive invariant, and the kinds of     *)
(* step the actions come to when only grants, stored bodies and what was   *)
(* read upstream are looked at.                                            *)

\* The stages before a request has read upstream, and those in which it carries
\* what it read.
Early == {"idle", "acquiring", "reading", "waiting", "woken", "recheck", "fetch"}
Carrying == {"fetched", "authorize", "write", "receipt", "edge", "edge_only"}

\* A request has read nothing before it asks upstream, and owns the fill from
\* its grant on.
Stage(q) ==
    /\ q.stage \in Early => q.seen = 0
    /\ q.stage \in {"recheck", "fetch", "completing", "closing"} => q.cap # 0
    /\ q.stage \in Carrying => q.cap # 0 /\ q.seen # 0

StagesOrdered == \A c \in Clients : Stage(req[c])

\* Nothing carries an id the allocator has not handed out.
Issued ==
    /\ row.id <= next
    /\ \A c \in Clients : req[c].cap <= next
    /\ \A s \in stored \cup late : s.id <= next
    /\ \A id \in ended : id <= next /\ (row.id # 0 => id # row.id)

\* Whatever was written, or may still be, was written by the one request that
\* holds its id, and is what that request read.
Authored ==
    \A s \in stored \cup late :
        /\ s.id # 0 /\ s.seen # 0
        /\ \E c \in Clients : req[c].cap = s.id /\ req[c].seen = s.seen

\* The owner row separates what was read before its grant from what is read
\* under it.
Separated ==
    /\ since <= version
    /\ \A c \in Clients : req[c].seen <= version
    /\ \A s \in stored \cup late : s.seen <= version
    /\ body.id # 0 => body \in stored
    /\ row.id # 0 =>
         /\ \A c \in Clients :
              req[c].cap = row.id /\ req[c].seen # 0 => req[c].seen >= since
         /\ \A s \in late : s.id = row.id => s.seen >= since
         /\ \A s \in stored : s.id <= row.id /\ (s.id # row.id => s.seen <= since)

\* The bodies stored over time, in the order of their owners' grants, never go
\* back to an older state of upstream.
StoredInGrantOrder ==
    \A s, t \in stored : s.id <= t.id => s.seen <= t.seen

OrderInv ==
    /\ TypeOK
    /\ StagesOrdered
    /\ Issued
    /\ CapabilitiesDistinct
    /\ Authored
    /\ Separated
    /\ StoredInGrantOrder

--------------------------------------------------------------------------------
(* Kinds of step.                                                          *)

SameReads == \A c \in Clients : req'[c].cap = req[c].cap /\ req'[c].seen = req[c].seen

\* A grant to a request that has read nothing, or a grant whose holder was lost.
Granting ==
    /\ TakeRow
    /\ \E c \in Clients :
         /\ req'[c].seen = req[c].seen
         /\ req'[c].cap = req[c].cap
              \/ (req[c].seen = 0 /\ req'[c].cap = next')
         /\ \A d \in Clients \ {c} :
              req'[d].cap = req[d].cap /\ req'[d].seen = req[d].seen
    /\ UNCHANGED <<body, late, version, stored, ended>>

\* Upstream answers a request.
Reading ==
    /\ \E c \in Clients :
         /\ req[c].seen = 0
         /\ req'[c].seen = version /\ req'[c].cap = req[c].cap
         /\ \A d \in Clients \ {c} :
              req'[d].cap = req[d].cap /\ req'[d].seen = req[d].seen
    /\ UNCHANGED <<next, row, body, late, version, history>>

\* The owner's statement, or a delayed one, stores a body.
Storing ==
    /\ \E w \in stored' :
         /\ \/ w \in late
            \/ \E c \in Clients :
                 req[c].stage = "write" /\ w = [id |-> req[c].cap, seen |-> req[c].seen]
         /\ Admits(w.id)
         /\ Store(w.id, w.seen)
    /\ late' \subseteq late
    /\ SameReads
    /\ UNCHANGED <<next, row, version, ended, since>>

\* A statement is left under way.
Delaying ==
    /\ \E c \in Clients :
         /\ req[c].stage = "write"
         /\ late' = late \cup {[id |-> req[c].cap, seen |-> req[c].seen]}
    /\ SameReads
    /\ UNCHANGED <<next, row, body, version, history>>

\* A completion, or maintenance, removes the row.
Ending ==
    /\ row.id # 0 /\ row'.id = 0
    /\ ended' \subseteq ended \cup {row.id}
    /\ SameReads
    /\ UNCHANGED <<next, body, late, version, stored, since>>

Withdrawing ==
    /\ body.id # 0 /\ body' = NoBody
    /\ SameReads
    /\ UNCHANGED <<next, row, late, version, history>>

Changing ==
    /\ version' = version + 1
    /\ SameReads
    /\ UNCHANGED <<next, row, body, late, history>>

Waiting ==
    /\ row'.id = row.id
    /\ late' \subseteq late
    /\ SameReads
    /\ UNCHANGED <<next, body, version, history>>

Kind ==
    \/ Granting \/ Reading \/ Storing \/ Delaying
    \/ Ending \/ Withdrawing \/ Changing \/ Waiting

--------------------------------------------------------------------------------
(* Every step is of one of the kinds, and keeps the stages ordered.        *)

\* What waking does to a request.
LEMMA WokenStage ==
    ASSUME NEW r \in [Clients -> RequestType], NEW answer,
           \A c \in Clients : Stage(r[c])
    PROVE  \A c \in Clients :
             /\ Stage(Woken(r, answer)[c])
             /\ Woken(r, answer)[c].cap = r[c].cap
             /\ Woken(r, answer)[c].seen = r[c].seen
  <1> SUFFICES ASSUME NEW c \in Clients
      PROVE /\ Stage(Woken(r, answer)[c])
            /\ Woken(r, answer)[c].cap = r[c].cap
            /\ Woken(r, answer)[c].seen = r[c].seen
    OBVIOUS
  <1>1. CASE r[c].stage = "waiting"
    <2>1. Woken(r, answer)[c] = [r[c] EXCEPT !.stage = "woken", !.told = answer]
      BY <1>1 DEF Woken
    <2>2. r[c] \in RequestType /\ Stage(r[c])
      OBVIOUS
    <2> QED BY <1>1, <2>1, <2>2 DEF Stage, Early, Carrying, RequestType
  <1>2. CASE r[c].stage # "waiting"
    BY <1>2 DEF Woken
  <1> QED BY <1>1, <1>2

\* The steps of an acquisition are grants, reads of the row, or changes of no
\* consequence to what is stored.
LEMMA AcquireKind ==
    ASSUME TypeOK, StagesOrdered, NEW c \in Clients, Acquire(c)
    PROVE  Kind /\ StagesOrdered'
  <1>q. req \in [Clients -> RequestType] /\ req[c] \in RequestType
    BY DEF TypeOK
  <1>s. Stage(req[c])
    BY DEF StagesOrdered
  <1>1. CASE Grant(c)
    <2> DEFINE r == [req EXCEPT ![c] = Owner(@, next')]
    <2>1. next' \in Nat \ {0} /\ TakeRow
      BY <1>1, IdGapsAssumption DEF Grant, TakeRow, TypeOK
    <2>2. /\ Owner(req[c], next') \in RequestType
          /\ Stage(Owner(req[c], next'))
          /\ Owner(req[c], next').cap = next'
          /\ Owner(req[c], next').seen = req[c].seen
          /\ req[c].seen = 0
      <3>1. CASE req[c].mode = "live"
        BY <1>1, <1>q, <1>s, <2>1, <3>1, Names
        DEF Grant, Owner, Stage, Early, Carrying, RequestType
      <3>2. CASE req[c].mode # "live"
        BY <1>1, <1>q, <1>s, <2>1, <3>2, Names
        DEF Grant, Owner, Stage, Early, Carrying, RequestType
      <3> QED BY <3>1, <3>2
    <2>3. r \in [Clients -> RequestType] /\ \A d \in Clients : Stage(r[d])
      BY <1>q, <2>2 DEF StagesOrdered
    <2>4. req' = Woken(r, Retry)
      BY <1>1 DEF Grant, Wake
    <2>5. /\ StagesOrdered'
          /\ \A d \in Clients : req'[d].cap = r[d].cap /\ req'[d].seen = r[d].seen
      <3> HIDE DEF r
      <3> QED BY <2>3, <2>4, WokenStage DEF StagesOrdered
    <2>6. Granting
      BY <1>1, <1>q, <2>1, <2>2, <2>5 DEF Grant, Granting
    <2> QED BY <2>5, <2>6 DEF Kind
  <1>2. CASE Busy(c)
    <2>1. StagesOrdered' /\ Waiting
      BY <1>2, <1>q, <1>s
      DEF Busy, StagesOrdered, Stage, Early, Carrying, RequestType,
          Waiting, SameReads, d1Vars, history, poolVars
    <2> QED BY <2>1 DEF Kind
  <1>3. CASE OwnerGone(c)
    <2>1. StagesOrdered' /\ Waiting
      BY <1>3, <1>q, <1>s
      DEF OwnerGone, Holds, Again, StagesOrdered, Stage, Early, Carrying, RequestType,
          Waiting, SameReads, d1Vars, history, poolVars
    <2> QED BY <2>1 DEF Kind
  <1>4. CASE Join(c)
    <2> DEFINE r == IF group.id = row.id THEN req ELSE Woken(req, Retry)
    <2>1. req' = [r EXCEPT ![c].stage = "waiting"] /\ req[c].seen = 0
      BY <1>4, <1>s DEF Join, Holds, Stage, Early
    <2>2. r \in [Clients -> RequestType]
      BY <1>q, WokenType, Names
    <2>3. \A d \in Clients :
            Stage(r[d]) /\ r[d].cap = req[d].cap /\ r[d].seen = req[d].seen
      BY <1>q, WokenStage DEF StagesOrdered
    <2>4. StagesOrdered' /\ SameReads
      <3> HIDE DEF r
      <3> QED
        BY <2>1, <2>2, <2>3
        DEF StagesOrdered, Stage, Early, Carrying, SameReads, RequestType
    <2> QED BY <1>4, <2>4 DEF Join, Waiting, Kind, d1Vars, history
  <1>t. ASSUME req[c].stage \in {"acquiring", "reading"},
               req' = [req EXCEPT ![c] = Thrown(@)]
        PROVE  StagesOrdered' /\ SameReads
    BY <1>t, <1>q, <1>s
    DEF Thrown, StagesOrdered, Stage, Early, Carrying, SameReads, RequestType
  <1>5. CASE AcquireFails(c)
    <2>1. StagesOrdered' /\ SameReads
      BY <1>5, <1>t DEF AcquireFails
    <2>2. CASE TakeRow
      BY <1>5, <2>1, <2>2 DEF AcquireFails, Granting, SameReads, Kind
    <2>3. CASE UNCHANGED <<next, row, since>>
      BY <1>5, <2>1, <2>3 DEF AcquireFails, Waiting, Kind, history
    <2> QED BY <1>5, <2>1, <2>2, <2>3 DEF AcquireFails
  <1>6. CASE ReadOwnerFails(c)
    BY <1>6, <1>t DEF ReadOwnerFails, Holds, Waiting, Kind, d1Vars, history
  <1> QED BY <1>1, <1>2, <1>3, <1>4, <1>5, <1>6 DEF Acquire

\* So are those of an owner that rechecks, reads upstream and renews.
LEMMA OwnKind ==
    ASSUME TypeOK, StagesOrdered, NEW c \in Clients,
           (\E m \in Modes : Start(c, m)) \/ Follow(c) \/ Own(c)
    PROVE  Kind /\ StagesOrdered'
  <1>q. req \in [Clients -> RequestType] /\ req[c] \in RequestType
    BY DEF TypeOK
  <1>s. Stage(req[c])
    BY DEF StagesOrdered
  <1>1. ASSUME NEW m \in Modes, Start(c, m) PROVE Kind /\ StagesOrdered'
    <2>1. StagesOrdered' /\ Waiting
      BY <1>1, <1>q, <1>s
      DEF Start, StagesOrdered, Stage, Early, Carrying, RequestType,
          Waiting, SameReads, d1Vars, history, poolVars
    <2> QED BY <2>1 DEF Kind
  <1>2. CASE Follow(c)
    <2>1. CASE req' = [req EXCEPT ![c] = Again(@)]
      BY <1>2, <1>q, <1>s, <2>1
      DEF Follow, Again, StagesOrdered, Stage, Early, Carrying, RequestType,
          Waiting, SameReads, Kind, d1Vars, history
    <2>2. ASSUME NEW v, req' = [req EXCEPT ![c].stage = "done", ![c].got = v]
          PROVE  StagesOrdered' /\ SameReads
      BY <1>q, <1>s, <2>2
      DEF StagesOrdered, Stage, Early, Carrying, RequestType, SameReads
    <2> QED
      BY <1>2, <2>1, <2>2 DEF Follow, Waiting, Kind, d1Vars, history
  <1>3. CASE Recheck(c)
    <2>1. StagesOrdered' /\ Waiting
      BY <1>3, <1>q, <1>s
      DEF Recheck, StagesOrdered, Stage, Early, Carrying, RequestType,
          Waiting, SameReads, d1Vars, history, poolVars
    <2> QED BY <2>1 DEF Kind
  <1>4. CASE Fetch(c)
    <2>1. StagesOrdered' /\ Reading
      BY <1>4, <1>q, <1>s
      DEF Fetch, StagesOrdered, Stage, Early, Carrying, RequestType, TypeOK,
          Reading, d1Vars, history, poolVars
    <2> QED BY <2>1 DEF Kind
  <1>5. CASE GiveUp(c)
    <2>1. StagesOrdered' /\ Waiting
      BY <1>5, <1>q, <1>s
      DEF GiveUp, StagesOrdered, Stage, Early, Carrying, RequestType,
          Waiting, SameReads, d1Vars, history, poolVars
    <2> QED BY <2>1 DEF Kind
  <1>6. CASE SendRenewal(c)
    <2>1. StagesOrdered' /\ Waiting
      BY <1>6, <1>q, <1>s
      DEF SendRenewal, StagesOrdered, Stage, Early, Carrying, RequestType,
          Waiting, SameReads, d1Vars, history, poolVars
    <2> QED BY <2>1 DEF Kind
  <1>r. ASSUME NEW q, q = Renewed(req[c]) \/ q = Refused(req[c]),
               req' = [req EXCEPT ![c] = q]
        PROVE  StagesOrdered' /\ SameReads
    <2>1. Stage(q) /\ q.cap = req[c].cap /\ q.seen = req[c].seen
      BY <1>r, <1>q, <1>s
      DEF Renewed, Refused, Stage, Early, Carrying, RequestType
    <2> QED BY <1>r, <1>q, <2>1 DEF StagesOrdered, SameReads
  <1>7. CASE ServeRenewal(c)
    <2>1. row' = [row EXCEPT !.left = Lease] /\ row \in [id : Nat, left : Nat]
      BY <1>7 DEF ServeRenewal, TypeOK
    <2> QED BY <1>7, <1>r, <2>1 DEF ServeRenewal, Waiting, Kind, history
  <1>8. CASE RefuseRenewal(c)
    BY <1>8, <1>r DEF RefuseRenewal, Waiting, Kind, d1Vars, history
  <1>9. CASE RenewalFails(c)
    <2>1. row'.id = row.id
      BY <1>9 DEF RenewalFails, TypeOK
    <2> QED BY <1>9, <1>r, <2>1 DEF RenewalFails, Waiting, Kind, history
  <1> QED BY <1>1, <1>2, <1>3, <1>4, <1>5, <1>6, <1>7, <1>8, <1>9 DEF Own

\* Publication is where bodies are stored or left to a late statement.
LEMMA PublishKind ==
    ASSUME TypeOK, StagesOrdered, NEW c \in Clients, PublishBody(c)
    PROVE  Kind /\ StagesOrdered'
  <1>q. req \in [Clients -> RequestType] /\ req[c] \in RequestType
    BY DEF TypeOK
  <1>s. Stage(req[c])
    BY DEF StagesOrdered
  <1> DEFINE w == [id |-> req[c].cap, seen |-> req[c].seen]
  <1>w. ASSUME Admits(req[c].cap), Store(req[c].cap, req[c].seen),
               req[c].stage = "write", UNCHANGED late, SameReads,
               UNCHANGED <<next, row, version, ended, since>>
        PROVE  Storing
    <2>1. w \in stored'
      BY <1>w DEF Store
    <2> QED BY <1>w, <2>1 DEF Storing
  <1>1. CASE Publish(c)
    <2>1. StagesOrdered' /\ Waiting
      BY <1>1, <1>q, <1>s
      DEF Publish, StagesOrdered, Stage, Early, Carrying, RequestType,
          Waiting, SameReads, d1Vars, history, poolVars
    <2> QED BY <2>1 DEF Kind
  <1>2. CASE Write(c)
    <2>1. StagesOrdered' /\ SameReads
      BY <1>2, <1>q, <1>s
      DEF Write, StagesOrdered, Stage, Early, Carrying, RequestType, SameReads
    <2>2. CASE UNCHANGED <<body, stored>>
      BY <1>2, <2>1, <2>2 DEF Write, Waiting, Kind, history
    <2>3. CASE Admits(req[c].cap) /\ Store(req[c].cap, req[c].seen)
      BY <1>2, <1>w, <2>1, <2>3 DEF Write, Kind
    <2> QED BY <1>2, <2>1, <2>2, <2>3 DEF Write
  <1>3. CASE WriteFails(c)
    <2>1. StagesOrdered' /\ SameReads
      BY <1>3, <1>q, <1>s
      DEF WriteFails, StagesOrdered, Stage, Early, Carrying, RequestType, SameReads
    <2>2. CASE UNCHANGED <<body, stored, late>>
      BY <1>3, <2>1, <2>2 DEF WriteFails, Waiting, Kind, history
    <2>3. CASE Admits(req[c].cap) /\ Store(req[c].cap, req[c].seen) /\ UNCHANGED late
      BY <1>3, <1>w, <2>1, <2>3 DEF WriteFails, Kind
    <2>4. CASE late' = late \cup {w} /\ UNCHANGED <<body, stored>>
      BY <1>3, <2>1, <2>4 DEF WriteFails, Delaying, Kind, history
    <2> QED BY <1>3, <2>1, <2>2, <2>3, <2>4 DEF WriteFails
  <1>4. CASE ReadReceipt(c)
    <2>1. StagesOrdered' /\ Waiting
      BY <1>4, <1>q, <1>s
      DEF ReadReceipt, StagesOrdered, Stage, Early, Carrying, RequestType,
          Waiting, SameReads, d1Vars, history, poolVars
    <2> QED BY <2>1 DEF Kind
  <1>5. CASE ReadReceiptFails(c)
    <2>1. StagesOrdered' /\ Waiting
      BY <1>5, <1>q, <1>s
      DEF ReadReceiptFails, StagesOrdered, Stage, Early, Carrying, RequestType,
          Waiting, SameReads, d1Vars, history, poolVars
    <2> QED BY <2>1 DEF Kind
  <1>6. CASE AuthorizeEdge(c)
    <2>1. StagesOrdered' /\ Waiting
      BY <1>6, <1>q, <1>s
      DEF AuthorizeEdge, StagesOrdered, Stage, Early, Carrying, RequestType,
          Waiting, SameReads, d1Vars, history, poolVars
    <2> QED BY <2>1 DEF Kind
  <1>7. CASE AuthorizeEdgeFails(c)
    <2>1. StagesOrdered' /\ Waiting
      BY <1>7, <1>q, <1>s
      DEF AuthorizeEdgeFails, StagesOrdered, Stage, Early, Carrying, RequestType,
          Waiting, SameReads, d1Vars, history, poolVars
    <2> QED BY <2>1 DEF Kind
  <1>8. CASE SkipWrite(c)
    <2>1. StagesOrdered' /\ Waiting
      BY <1>8, <1>q, <1>s
      DEF SkipWrite, StagesOrdered, Stage, Early, Carrying, RequestType,
          Waiting, SameReads, d1Vars, history, poolVars
    <2> QED BY <2>1 DEF Kind
  <1>9. CASE WriteEdge(c)
    <2>1. StagesOrdered' /\ Waiting
      BY <1>9, <1>q, <1>s
      DEF WriteEdge, StagesOrdered, Stage, Early, Carrying, RequestType,
          Waiting, SameReads, d1Vars, history, poolVars
    <2> QED BY <2>1 DEF Kind
  <1> QED BY <1>1, <1>2, <1>3, <1>4, <1>5, <1>6, <1>7, <1>8, <1>9 DEF PublishBody

\* Completion is where a grant ends.
LEMMA FinishKind ==
    ASSUME TypeOK, StagesOrdered, NEW c \in Clients, Finish(c)
    PROVE  Kind /\ StagesOrdered'
  <1>q. req \in [Clients -> RequestType] /\ req[c] \in RequestType
    BY DEF TypeOK
  <1>s. Stage(req[c])
    BY DEF StagesOrdered
  <1>1. CASE Complete(c)
    <2>1. StagesOrdered' /\ Waiting
      BY <1>1, <1>q, <1>s
      DEF Complete, StagesOrdered, Stage, Early, Carrying, RequestType,
          Waiting, SameReads, d1Vars, history, poolVars
    <2> QED BY <2>1 DEF Kind
  <1>d. ASSUME NEW a, req[c].stage = "closing"
        PROVE  LET r == [req EXCEPT ![c].stage = "done", ![c].ack = a] IN
               \A d \in Clients :
                 Stage(r[d]) /\ r[d].cap = req[d].cap /\ r[d].seen = req[d].seen
    BY <1>d, <1>q, <1>s DEF StagesOrdered, Stage, Early, Carrying, RequestType
  <1>e. ASSUME RemoveRow(c), Removes(c), SameReads, req[c].stage = "closing",
               UNCHANGED <<next, body, late, version, stored, since>>
        PROVE  Ending
    BY <1>e, <1>s DEF Stage, RemoveRow, Removes, Ending, NoRow
  <1>2. CASE ServeCompletion(c)
    <2> DEFINE a == IF row.left > 0 THEN "accepted" ELSE "lost"
               r == [req EXCEPT ![c].stage = "done", ![c].ack = a]
               answer == IF row.left > 0
                         THEN [kind |-> req[c].plan, id |-> req[c].claim]
                         ELSE Retry
    <2>1. req' = r \/ req' = Woken(r, answer)
      BY <1>2 DEF ServeCompletion, Wake
    <2>2. r \in [Clients -> RequestType]
      BY <1>q, Names DEF RequestType
    <2>3. \A d \in Clients :
            Stage(r[d]) /\ r[d].cap = req[d].cap /\ r[d].seen = req[d].seen
      <3> HIDE DEF a
      <3> QED
        BY <1>2, <1>q, <1>s
        DEF ServeCompletion, StagesOrdered, Stage, Early, Carrying, RequestType
    <2>4. answer \in Told
      BY <1>q, Names DEF RequestType, Told
    <2>5. StagesOrdered' /\ SameReads
      <3> HIDE DEF r, answer
      <3> QED BY <2>1, <2>2, <2>3, <2>4, WokenStage DEF StagesOrdered, SameReads
    <2> QED BY <1>2, <1>e, <2>5 DEF ServeCompletion, Kind
  <1>3. CASE RefuseCompletion(c)
    <2>1. StagesOrdered' /\ Waiting
      BY <1>3, <1>q, <1>s
      DEF RefuseCompletion, StagesOrdered, Stage, Early, Carrying, RequestType,
          Waiting, SameReads, d1Vars, history, poolVars
    <2> QED BY <2>1 DEF Kind
  <1>4. CASE CompletionFails(c)
    <2>1. StagesOrdered' /\ SameReads
      BY <1>4, <1>d DEF CompletionFails, StagesOrdered, SameReads
    <2>2. CASE UNCHANGED <<row, ended>>
      BY <1>4, <2>1, <2>2 DEF CompletionFails, Waiting, Kind, history
    <2>3. CASE Removes(c) /\ RemoveRow(c)
      BY <1>4, <1>e, <2>1, <2>3 DEF CompletionFails, Kind
    <2> QED BY <1>4, <2>1, <2>2, <2>3 DEF CompletionFails
  <1> QED BY <1>1, <1>2, <1>3, <1>4 DEF Finish

\* A worker that disappears may leave a statement behind.
LEMMA DieKind ==
    ASSUME TypeOK, StagesOrdered, NEW c \in Clients, Die(c)
    PROVE  Kind /\ StagesOrdered'
  <1>q. req \in [Clients -> RequestType] /\ req[c] \in RequestType
    BY DEF TypeOK
  <1>s. Stage(req[c])
    BY DEF StagesOrdered
  <1>1. StagesOrdered' /\ SameReads
    BY <1>q, <1>s
    DEF Die, StagesOrdered, Stage, Early, Carrying, RequestType, SameReads
  <1>2. CASE UNCHANGED late
    BY <1>1, <1>2 DEF Die, Waiting, Kind, history
  <1>3. CASE /\ req[c].stage = "write"
             /\ late' = late \cup {[id |-> req[c].cap, seen |-> req[c].seen]}
    BY <1>1, <1>3 DEF Die, Delaying, Kind, history
  <1> QED BY <1>1, <1>2, <1>3 DEF Die

\* Timers, restarts, late statements, retention, upstream and time.
LEMMA EnvironmentKind ==
    ASSUME TypeOK, StagesOrdered, Environment
    PROVE  Kind /\ StagesOrdered'
  <1>q. req \in [Clients -> RequestType]
    BY DEF TypeOK
  <1>s. ASSUME UNCHANGED req PROVE StagesOrdered' /\ SameReads
    BY <1>s DEF StagesOrdered, SameReads
  <1>1. CASE TimerFires
    BY <1>1, <1>s DEF TimerFires, Waiting, Kind, d1Vars, history
  <1>2. ASSUME NEW t \in {"current", "stale"}, RunExpiry(t)
        PROVE Kind /\ StagesOrdered'
    <2>1. req' = req \/ req' = Woken(req, Retry)
      BY <1>2 DEF RunExpiry
    <2>2. StagesOrdered' /\ SameReads
      BY <1>q, <1>s, <2>1, WokenStage DEF StagesOrdered, SameReads
    <2> QED BY <1>2, <2>2 DEF RunExpiry, Waiting, Kind, d1Vars, history
  <1>3. CASE Restart
    <2>1. ASSUME NEW c \in Clients
          PROVE  /\ Stage(req'[c])
                 /\ req'[c].cap = req[c].cap /\ req'[c].seen = req[c].seen
      <3>1. req[c] \in RequestType /\ Stage(req[c])
        BY <1>q DEF StagesOrdered
      <3>2. CASE req[c].stage \in {"reading", "waiting"}
        <4>1. req'[c] = Thrown(req[c])
          BY <1>3, <3>2 DEF Restart
        <4> QED
          BY <3>1, <3>2, <4>1 DEF Thrown, Stage, Early, Carrying, RequestType
      <3>3. CASE req[c].stage \notin {"reading", "waiting"}
        <4>1. req'[c] = req[c]
          BY <1>3, <3>3 DEF Restart
        <4> QED BY <3>1, <4>1
      <3> QED BY <3>2, <3>3
    <2>2. StagesOrdered' /\ SameReads
      BY <2>1 DEF StagesOrdered, SameReads
    <2> QED BY <1>3, <2>2 DEF Restart, Waiting, Kind, d1Vars, history
  <1>4. ASSUME NEW w \in late, LateWrite(w) PROVE Kind /\ StagesOrdered'
    <2>1. StagesOrdered' /\ SameReads
      BY <1>4, <1>s DEF LateWrite
    <2>2. CASE UNCHANGED <<body, stored>>
      BY <1>4, <2>1, <2>2 DEF LateWrite, Waiting, Kind, history
    <2>3. CASE Admits(w.id) /\ Store(w.id, w.seen)
      <3>1. w = [id |-> w.id, seen |-> w.seen]
        BY DEF TypeOK, Bodies
      <3> QED BY <1>4, <2>1, <2>3, <3>1 DEF LateWrite, Store, Storing, Kind
    <2> QED BY <1>4, <2>1, <2>2, <2>3 DEF LateWrite
  <1>5. CASE PruneOwner
    BY <1>5, <1>s DEF PruneOwner, Ending, NoRow, Kind, history
  <1>6. CASE PruneBody
    BY <1>6, <1>s DEF PruneBody, Withdrawing, Kind, history
  <1>7. CASE UpstreamChanges
    BY <1>7, <1>s DEF UpstreamChanges, Changing, Kind, d1Vars, history
  <1>8. CASE Tick
    <2>1. row'.id = row.id
      BY <1>8 DEF Tick, TypeOK
    <2> QED BY <1>8, <1>s, <2>1 DEF Tick, Waiting, Kind, history
  <1> QED BY <1>1, <1>2, <1>3, <1>4, <1>5, <1>6, <1>7, <1>8 DEF Environment

\* Every step is of one of the kinds.
LEMMA StepKind ==
    TypeOK /\ StagesOrdered /\ [Next]_vars => Kind /\ StagesOrdered'
  <1> SUFFICES ASSUME TypeOK, StagesOrdered, [Next]_vars
      PROVE Kind /\ StagesOrdered'
    OBVIOUS
  <1>1. ASSUME NEW c \in Clients, Request(c) PROVE Kind /\ StagesOrdered'
    BY <1>1, AcquireKind, OwnKind, PublishKind, FinishKind, DieKind DEF Request
  <1>2. CASE UNCHANGED vars
    BY <1>2
    DEF vars, d1Vars, history, StagesOrdered, SameReads, Waiting, Kind
  <1> QED BY <1>1, <1>2, EnvironmentKind DEF Next, Drained

--------------------------------------------------------------------------------
(* The invariant is inductive: one lemma per kind of step that matters.    *)

\* The facts about the state that the kinds leave to arithmetic.
LEMMA Numbers ==
    ASSUME TypeOK
    PROVE  /\ next \in Nat /\ row.id \in Nat /\ since \in Nat \ {0}
           /\ version \in Nat \ {0} /\ body \in Bodies
           /\ \A c \in Clients : req[c].cap \in Nat /\ req[c].seen \in Nat
           /\ \A s \in stored \cup late :
                s \in Bodies /\ s.id \in Nat /\ s.seen \in Nat
           /\ \A id \in ended : id \in Nat
  BY DEF TypeOK, RequestType, Bodies

\* A grant starts above every id there is, with everything read before it.
LEMMA GrantingKeeps ==
    ASSUME OrderInv, TypeOK', Granting
    PROVE  Issued' /\ CapabilitiesDistinct' /\ Authored' /\ Separated'
             /\ StoredInGrantOrder'
  <1> USE Numbers
  <1> USE DEF OrderInv
  <1>1. next' \in Nat /\ next' > next /\ row'.id = next' /\ since' = version
    BY IdGapsAssumption DEF Granting, TakeRow
  <1>2. /\ body' = body /\ late' = late /\ stored' = stored /\ ended' = ended
        /\ version' = version
    BY DEF Granting
  <1>3. PICK c \in Clients :
          /\ req'[c].seen = req[c].seen
          /\ req'[c].cap = req[c].cap
               \/ (req[c].seen = 0 /\ req'[c].cap = next')
          /\ \A d \in Clients \ {c} :
               req'[d].cap = req[d].cap /\ req'[d].seen = req[d].seen
    BY DEF Granting
  <1>4. Issued'
    BY <1>1, <1>2, <1>3 DEF Issued
  <1>5. CapabilitiesDistinct'
    BY <1>1, <1>3 DEF CapabilitiesDistinct, Issued
  <1>6. Authored'
    BY <1>2, <1>3 DEF Authored
  <1>7. Separated'
    BY <1>1, <1>2, <1>3 DEF Separated, Issued
  <1>8. StoredInGrantOrder'
    BY <1>2 DEF StoredInGrantOrder
  <1> QED BY <1>4, <1>5, <1>6, <1>7, <1>8

\* What upstream answers now is no older than the grant, and the request that
\* reads it has written nothing yet.
LEMMA ReadingKeeps ==
    ASSUME OrderInv, TypeOK', Reading
    PROVE  Issued' /\ CapabilitiesDistinct' /\ Authored' /\ Separated'
             /\ StoredInGrantOrder'
  <1> USE Numbers
  <1> USE DEF OrderInv
  <1>1. UNCHANGED <<next, row, body, late, version, stored, ended, since>>
    BY DEF Reading, history
  <1>2. PICK c \in Clients :
          /\ req[c].seen = 0
          /\ req'[c].seen = version /\ req'[c].cap = req[c].cap
          /\ \A d \in Clients \ {c} :
               req'[d].cap = req[d].cap /\ req'[d].seen = req[d].seen
    BY DEF Reading
  <1>3. Issued' /\ CapabilitiesDistinct'
    BY <1>1, <1>2 DEF Issued, CapabilitiesDistinct
  <1>4. Authored'
    BY <1>1, <1>2 DEF Authored
  <1>5. Separated'
    BY <1>1, <1>2 DEF Separated
  <1> QED BY <1>1, <1>3, <1>4, <1>5 DEF StoredInGrantOrder

\* A statement that stores does so for the owner of the row, with what that
\* owner read since its grant, which is no older than anything stored.
LEMMA StoringOwner ==
    ASSUME OrderInv, Storing
    PROVE  \E w \in Bodies :
             /\ stored' = stored \cup {w} /\ body' = w
             /\ w.id # 0 /\ w.seen # 0
             /\ \E c \in Clients : req[c].cap = w.id /\ req[c].seen = w.seen
             /\ w.id = row.id /\ w.id <= next
             /\ since <= w.seen /\ w.seen <= version
             /\ \A s \in stored : s.id = w.id => s.seen = w.seen
             /\ \A s \in stored : s.id <= w.id /\ s.seen <= w.seen
  <1> USE Numbers
  <1> USE DEF OrderInv
  <1>2. PICK w \in stored' :
          /\ \/ w \in late
             \/ \E c \in Clients :
                  /\ req[c].stage = "write"
                  /\ w = [id |-> req[c].cap, seen |-> req[c].seen]
          /\ Admits(w.id)
          /\ Store(w.id, w.seen)
    BY DEF Storing
  <1>3. w \in Bodies /\ w = [id |-> w.id, seen |-> w.seen]
    BY <1>2 DEF TypeOK, Bodies, RequestType
  <1>4. stored' = stored \cup {w} /\ body' = w
    BY <1>2, <1>3 DEF Store
  <1>5. /\ w.id # 0 /\ w.seen # 0
        /\ \E c \in Clients : req[c].cap = w.id /\ req[c].seen = w.seen
    BY <1>2 DEF Authored, StagesOrdered, Stage, Carrying
  <1>6. /\ w.id = row.id /\ w.id \in Nat /\ w.seen \in Nat /\ w.id <= next
        /\ since <= w.seen /\ w.seen <= version
    BY <1>2, <1>3, <1>5 DEF Admits, Owns, Issued, Separated, Bodies
  <1>7. \A s \in stored : s.id = w.id => s.seen = w.seen
    BY <1>5 DEF Authored, CapabilitiesDistinct
  <1>8. \A s \in stored : s.id <= w.id /\ s.seen <= w.seen
    BY <1>5, <1>6, <1>7 DEF Separated
  <1> QED BY <1>3, <1>4, <1>5, <1>6, <1>7, <1>8

\* What is stored is what the live owner read under its grant.
LEMMA StoringKeeps ==
    ASSUME OrderInv, TypeOK', Storing
    PROVE  Issued' /\ CapabilitiesDistinct' /\ Authored' /\ Separated'
             /\ StoredInGrantOrder'
  <1> USE Numbers
  <1> USE DEF OrderInv
  <1>1. /\ UNCHANGED <<next, row, version, ended, since>> /\ SameReads
        /\ late' \subseteq late
    BY DEF Storing
  <1>2. PICK w \in Bodies :
          /\ stored' = stored \cup {w} /\ body' = w
          /\ w.id # 0 /\ w.seen # 0
          /\ \E d \in Clients : req[d].cap = w.id /\ req[d].seen = w.seen
          /\ w.id = row.id /\ w.id <= next
          /\ since <= w.seen /\ w.seen <= version
          /\ \A s \in stored : s.id = w.id => s.seen = w.seen
          /\ \A s \in stored : s.id <= w.id /\ s.seen <= w.seen
    BY StoringOwner
  <1>4. stored' = stored \cup {w} /\ body' = w
    BY <1>2
  <1>5. /\ w.id # 0 /\ w.seen # 0
        /\ \E c \in Clients : req[c].cap = w.id /\ req[c].seen = w.seen
    BY <1>2
  <1>6. /\ w.id = row.id /\ w.id \in Nat /\ w.seen \in Nat /\ w.id <= next
        /\ since <= w.seen /\ w.seen <= version
    BY <1>2 DEF Bodies
  <1>7. \A s \in stored : s.id = w.id => s.seen = w.seen
    BY <1>2
  <1>8. Issued' /\ CapabilitiesDistinct'
    BY <1>1, <1>4, <1>6 DEF Issued, CapabilitiesDistinct, SameReads
  <1>9. Authored'
    BY <1>1, <1>4, <1>5 DEF Authored, SameReads
  <1>10. Separated'
    BY <1>1, <1>4, <1>6 DEF Separated, SameReads
  <1>11. \A s \in stored : s.id <= w.id /\ s.seen <= w.seen
    BY <1>2
  <1>12. StoredInGrantOrder'
    <2> SUFFICES ASSUME NEW s \in stored', NEW t \in stored', s.id <= t.id
        PROVE s.seen <= t.seen
      BY DEF StoredInGrantOrder
    <2>1. CASE s \in stored /\ t \in stored
      BY <2>1 DEF StoredInGrantOrder
    <2>2. CASE t = w
      BY <1>4, <1>6, <1>11, <2>2
    <2>3. CASE s = w /\ t \in stored
      BY <1>6, <1>7, <1>11, <2>3
    <2> QED BY <1>4, <2>1, <2>2, <2>3
  <1> QED BY <1>8, <1>9, <1>10, <1>12

\* A statement left under way is its request's own.
LEMMA DelayingKeeps ==
    ASSUME OrderInv, TypeOK', Delaying
    PROVE  Issued' /\ CapabilitiesDistinct' /\ Authored' /\ Separated'
             /\ StoredInGrantOrder'
  <1> USE Numbers
  <1> USE DEF OrderInv
  <1>1. UNCHANGED <<next, row, body, version, stored, ended, since>> /\ SameReads
    BY DEF Delaying, history
  <1>2. PICK c \in Clients :
          /\ req[c].stage = "write"
          /\ late' = late \cup {[id |-> req[c].cap, seen |-> req[c].seen]}
    BY DEF Delaying
  <1> DEFINE w == [id |-> req[c].cap, seen |-> req[c].seen]
  <1>3. w.id = req[c].cap /\ w.seen = req[c].seen /\ w.id # 0 /\ w.seen # 0
    BY <1>2 DEF StagesOrdered, Stage, Carrying
  <1>4. late' = late \cup {w}
    BY <1>2
  <1> HIDE DEF w
  <1>5. Issued' /\ CapabilitiesDistinct'
    BY <1>1, <1>3, <1>4 DEF Issued, CapabilitiesDistinct, SameReads
  <1>6. Authored'
    BY <1>1, <1>3, <1>4 DEF Authored, SameReads
  <1>7. Separated'
    BY <1>1, <1>3, <1>4 DEF Separated, SameReads
  <1> QED BY <1>1, <1>5, <1>6, <1>7 DEF StoredInGrantOrder

\* The other kinds only take away.
LEMMA OthersKeep ==
    ASSUME OrderInv, TypeOK', Ending \/ Withdrawing \/ Changing \/ Waiting
    PROVE  Issued' /\ CapabilitiesDistinct' /\ Authored' /\ Separated'
             /\ StoredInGrantOrder'
  <1> USE Numbers
  <1> USE DEF OrderInv, SameReads, history
  <1>1. CASE Ending
    BY <1>1
    DEF Ending, Issued, CapabilitiesDistinct, Authored, Separated,
        StoredInGrantOrder
  <1>2. CASE Withdrawing
    BY <1>2
    DEF Withdrawing, NoBody, Issued, CapabilitiesDistinct, Authored, Separated,
        StoredInGrantOrder
  <1>3. CASE Changing
    BY <1>3
    DEF Changing, Issued, CapabilitiesDistinct, Authored, Separated,
        StoredInGrantOrder
  <1>4. CASE Waiting
    BY <1>4
    DEF Waiting, Issued, CapabilitiesDistinct, Authored, Separated,
        StoredInGrantOrder
  <1> QED BY <1>1, <1>2, <1>3, <1>4

\* The inductive invariant holds at first: nothing has been granted.
LEMMA OrderInitial == Init => OrderInv
  <1> SUFFICES ASSUME Init PROVE OrderInv
    OBVIOUS
  <1>1. TypeOK
    BY TypeInitial
  <1>2. \A c \in Clients : req[c].cap = 0 /\ req[c].seen = 0 /\ req[c].stage = "idle"
    BY DEF Init, NewRequest
  <1>3. StagesOrdered
    BY <1>2 DEF StagesOrdered, Stage, Early, Carrying
  <1>4. Issued /\ CapabilitiesDistinct /\ Authored /\ Separated /\ StoredInGrantOrder
    BY <1>2
    DEF Init, NoRow, NoBody, Issued, CapabilitiesDistinct, Authored, Separated,
        StoredInGrantOrder
  <1> QED BY <1>1, <1>3, <1>4 DEF OrderInv

\* Every kind of step keeps the inductive invariant.
LEMMA OrderStep == OrderInv /\ [Next]_vars => OrderInv'
  <1> SUFFICES ASSUME OrderInv, [Next]_vars PROVE OrderInv'
    OBVIOUS
  <1>1. TypeOK' /\ StagesOrdered' /\ Kind
    BY TypeStep, StepKind DEF OrderInv
  <1>2. Issued' /\ CapabilitiesDistinct' /\ Authored' /\ Separated'
          /\ StoredInGrantOrder'
    BY <1>1, GrantingKeeps, ReadingKeeps, StoringKeeps, DelayingKeeps, OthersKeep
    DEF Kind
  <1> QED BY <1>1, <1>2 DEF OrderInv

\* The strengthening behind the theorems that follow.
LEMMA OrderInvariant == Spec => []OrderInv
  BY OrderInitial, OrderStep, PTL DEF Spec

--------------------------------------------------------------------------------

\* No two requests ever hold the same capability: the ids of the acquisition
\* statement are never handed out twice, whatever is deleted or taken over.
THEOREM CapabilitiesAreDistinct == Spec => []CapabilitiesDistinct
  <1>1. OrderInv => CapabilitiesDistinct
    BY DEF OrderInv
  <1> QED BY <1>1, OrderInvariant, PTL

\* Over time the stored bodies never go back to an older state of upstream, even
\* when a later owner's body has meanwhile been deleted.
THEOREM PublicationsAreOrdered == Spec => StoresGoForward
  <1> DEFINE A == \A s \in stored' \ stored, t \in stored : t.seen <= s.seen
  <1>1. OrderInv /\ [Next]_vars => [A]_vars
    <2> SUFFICES ASSUME OrderInv, Kind, NEW s \in stored' \ stored, NEW t \in stored
        PROVE t.seen <= s.seen
      BY StepKind DEF OrderInv
    <2>1. Storing
      BY DEF Kind, Granting, Reading, Delaying, Ending, Withdrawing, Changing,
             Waiting, history
    <2>2. PICK w \in Bodies : /\ stored' = stored \cup {w}
                             /\ \A u \in stored : u.seen <= w.seen
      BY <2>1, StoringOwner
    <2> QED BY <2>2
  <1> QED BY <1>1, OrderInvariant, PTL DEF Spec, StoresGoForward

\* The guard of the upsert never shuts out a live owner that stored nothing.
THEOREM LiveOwnersCanPublish == Spec => []LiveOwnerCanPublish
  <1>1. OrderInv => LiveOwnerCanPublish
    <2> SUFFICES ASSUME OrderInv, Live, \A s \in stored : s.id # row.id
        PROVE body.id < row.id
      BY DEF LiveOwnerCanPublish
    <2>1. row.id \in Nat \ {0} /\ body.id \in Nat
      BY Numbers DEF OrderInv, Live, Bodies
    <2>2. CASE body.id = 0
      BY <2>1, <2>2
    <2>3. CASE body.id # 0
      <3>1. body.id <= row.id /\ body.id # row.id
        BY <2>1, <2>3 DEF OrderInv, Separated
      <3> QED BY <2>1, <3>1
    <2> QED BY <2>2, <2>3
  <1> QED BY <1>1, OrderInvariant, PTL

\* No statement of a grant that was completed or revoked stores a body, however
\* late it reaches D1.
THEOREM EndedGrantsNeverStore == Spec => EndedNeverStores
  <1> DEFINE A == \A s \in stored' \ stored : s.id \notin ended
  <1>1. OrderInv /\ [Next]_vars => [A]_vars
    <2> SUFFICES ASSUME OrderInv, Kind, NEW s \in stored' \ stored
        PROVE s.id \notin ended
      BY StepKind DEF OrderInv
    <2>1. Storing
      BY DEF Kind, Granting, Reading, Delaying, Ending, Withdrawing, Changing,
             Waiting, history
    <2>2. s.id = row.id /\ row.id # 0
      <3>1. PICK w \in stored' :
              /\ \/ w \in late
                 \/ \E c \in Clients :
                      /\ req[c].stage = "write"
                      /\ w = [id |-> req[c].cap, seen |-> req[c].seen]
              /\ Admits(w.id)
              /\ Store(w.id, w.seen)
        BY <2>1 DEF Storing
      <3>2. s.id = w.id
        BY <3>1 DEF Store
      <3>3. w.id # 0
        BY <3>1 DEF OrderInv, Authored, StagesOrdered, Stage, Carrying
      <3> QED BY <3>1, <3>2, <3>3 DEF Admits, Owns
    <2> QED BY <2>2 DEF OrderInv, Issued
  <1> QED BY <1>1, OrderInvariant, PTL DEF Spec, EndedNeverStores

\* The protocol implements its abstract specification: authority passes from
\* grant to grant, and only the current grant publishes, over an earlier one's
\* body, what was read upstream since it was granted.
THEOREM ProtocolImplementsFence == Spec => ImplementsFence
  <1>1. Init => Fence!Init
    BY DEF Init, NoRow, NoBody, Fence!Init, Fence!Nothing
  <1>2. OrderInv /\ [Next]_vars => [Fence!Next]_(Fence!vars)
    <2> SUFFICES ASSUME OrderInv, Kind
        PROVE [Fence!Next]_(Fence!vars)
      BY StepKind DEF OrderInv
    <2> USE DEF Fence!Next, Fence!vars
    <2>1. CASE Granting
      <3>1. next' \in Nat /\ next' > next /\ row'.id = next' /\ since' = version
        BY <2>1, Numbers, IdGapsAssumption DEF OrderInv, Granting, TakeRow
      <3> QED BY <2>1, <3>1 DEF Granting, Fence!NewGrant
    <2>2. CASE Storing
      <3>1. PICK w \in stored' :
              /\ \/ w \in late
                 \/ \E c \in Clients :
                      /\ req[c].stage = "write"
                      /\ w = [id |-> req[c].cap, seen |-> req[c].seen]
              /\ Admits(w.id)
              /\ Store(w.id, w.seen)
        BY <2>2 DEF Storing
      <3>2. w.id # 0 /\ w.seen # 0 /\ w.id \in Nat /\ w.seen \in Nat
        BY <3>1, Numbers
        DEF OrderInv, Authored, StagesOrdered, Stage, Carrying
      <3>3. row.id = w.id /\ body.id < row.id
        BY <3>1, <3>2 DEF Admits, Owns
      <3>4. w.seen \in since..version
        BY <3>1, <3>2, <3>3, Numbers DEF OrderInv, Separated
      <3>5. body' = [id |-> row.id, seen |-> w.seen]
        BY <3>1, <3>3 DEF Store
      <3> QED
        BY <2>2, <3>2, <3>3, <3>4, <3>5 DEF Storing, Fence!PublishGrant
    <2>3. CASE Ending
      BY <2>3 DEF Ending, Fence!EndGrant
    <2>4. CASE Withdrawing
      <3>1. body # NoBody
        BY <2>4 DEF Withdrawing, NoBody
      <3> QED
        BY <2>4, <3>1
        DEF Withdrawing, NoBody, history, Fence!Withdraw, Fence!Nothing
    <2>5. CASE Changing
      BY <2>5 DEF Changing, history, Fence!Observable
    <2>6. CASE Reading \/ Delaying \/ Waiting
      BY <2>6 DEF Reading, Delaying, Waiting, history
    <2> QED BY <2>1, <2>2, <2>3, <2>4, <2>5, <2>6 DEF Kind
  <1> QED
    BY <1>1, <1>2, OrderInvariant, PTL
    DEF Spec, ImplementsFence, Fence!Spec

--------------------------------------------------------------------------------
(* What requests are told.  Until its statement runs, nothing is written    *)
(* under a request's id; a request that reports a rejection never had one  *)
(* run; one that goes on to the edge, or claims a publication, has what it *)
(* read stored; and what a live read has got is no older than the read.    *)

Unwritten(id, written) == \A s \in written : s.id # id
Announced(id, kept) == \E s \in kept : s.id = id
Kept(q, kept) == [id |-> q.cap, seen |-> q.seen] \in kept

Before == Early \cup {"fetched", "authorize", "write"}

Honest(q, kept, written, v) ==
    /\ q.stage \in Before => q.plan = "none" /\ q.claim = 0
    /\ q.stage \in Before \/ q.plan = "rejected" => Unwritten(q.cap, written)
    /\ q.stage = "edge" => Kept(q, kept)
    /\ q.claim # 0 =>
          q.claim = q.cap /\ Kept(q, kept) /\ q.stage \in {"completing", "closing", "done"}
    /\ q.told.id # 0 => Announced(q.told.id, kept)
    /\ q.stage = "idle" => q.got = 0
    /\ q.mode = "live" =>
          /\ q.stage # "recheck" /\ q.asked <= v
          /\ q.got # 0 => q.asked <= q.got

Written == stored \cup late
AllHonest == \A c \in Clients : Honest(req[c], stored, Written, version)

HonestInv == OrderInv /\ AllHonest

\* Honesty does not depend on what is written under other ids.
LEMMA HonestStays ==
    ASSUME NEW q \in RequestType, NEW kept, NEW more, NEW written, NEW now, NEW v \in Nat,
           NEW w \in Nat, Honest(q, kept, written, v), kept \subseteq more, v <= w,
           \A s \in now : s \in written \/ s.id # q.cap
    PROVE  Honest(q, more, now, w)
  <1>1. Unwritten(q.cap, written) => Unwritten(q.cap, now)
    BY DEF Unwritten
  <1>2. Kept(q, kept) => Kept(q, more)
    BY DEF Kept
  <1>3. Announced(q.told.id, kept) => Announced(q.told.id, more)
    BY DEF Announced
  <1>4. q.asked \in Nat /\ (q.asked <= v => q.asked <= w)
    BY DEF RequestType
  <1> QED BY <1>1, <1>2, <1>3, <1>4 DEF Honest

\* Nor does what a woken follower is told matter, if it is true.
LEMMA WokenHonest ==
    ASSUME NEW r \in [Clients -> RequestType], NEW answer \in Told, NEW kept, NEW written,
           NEW v, answer.id = 0 \/ Announced(answer.id, kept),
           NEW c \in Clients, Honest(r[c], kept, written, v)
    PROVE  Honest(Woken(r, answer)[c], kept, written, v)
  <1>1. CASE r[c].stage = "waiting"
    <2>1. PICK q \in RequestType : q = r[c] /\ Honest(q, kept, written, v)
      OBVIOUS
    <2>2. PICK p : p = [q EXCEPT !.stage = "woken", !.told = answer]
      OBVIOUS
    <2>3. /\ p.stage = "woken" /\ p.plan = q.plan /\ p.claim = q.claim /\ p.cap = q.cap
          /\ p.seen = q.seen /\ p.told = answer /\ p.got = q.got /\ p.mode = q.mode
          /\ p.asked = q.asked
      BY <2>2 DEF RequestType
    <2>4. Kept(q, kept) => Kept(p, kept)
      BY <2>3 DEF Kept
    <2>5. Honest(p, kept, written, v)
      BY <1>1, <2>1, <2>3, <2>4 DEF Honest, Before, Early
    <2>6. Woken(r, answer)[c] = p
      BY <1>1, <2>1, <2>2 DEF Woken
    <2> QED BY <2>5, <2>6
  <1>2. CASE r[c].stage # "waiting"
    <2>1. Woken(r, answer)[c] = r[c]
      BY <1>2 DEF Woken
    <2> QED BY <2>1
  <1> QED BY <1>1, <1>2

\* One request moves, and others may be woken.
LEMMA OneIsHonest ==
    ASSUME HonestInv, NEW c \in Clients, NEW p \in RequestType, NEW answer \in Told,
           answer.id = 0 \/ Announced(answer.id, stored'),
           \/ req' = [req EXCEPT ![c] = p]
           \/ req' = Woken([req EXCEPT ![c] = p], answer),
           Honest(p, stored', Written', version'), version' \in Nat, version <= version',
           stored \subseteq stored',
           \A s \in Written' : s \in Written \/ (s.id = req[c].cap /\ req[c].cap # 0)
    PROVE  AllHonest'
  <1> DEFINE r == [req EXCEPT ![c] = p]
  <1>1. /\ req \in [Clients -> RequestType] /\ version \in Nat /\ CapabilitiesDistinct
        /\ AllHonest
    BY DEF HonestInv, OrderInv, TypeOK
  <1>2. r \in [Clients -> RequestType]
    BY <1>1
  <1>3. ASSUME NEW d \in Clients PROVE Honest(r[d], stored', Written', version')
    <2>1. CASE d = c
      BY <1>1, <2>1
    <2>2. CASE d # c
      <3>1. \A s \in Written' : s \in Written \/ s.id # req[d].cap
        BY <2>2, <1>1 DEF CapabilitiesDistinct
      <3>2. Honest(req[d], stored, Written, version) /\ req[d] \in RequestType
        BY <1>1 DEF AllHonest
      <3>3. Honest(req[d], stored', Written', version')
        BY <1>1, <3>1, <3>2, HonestStays
      <3> QED BY <1>1, <2>2, <3>3
    <2> QED BY <2>1, <2>2
  <1> HIDE DEF r
  <1>4. ASSUME NEW d \in Clients PROVE Honest(req'[d], stored', Written', version')
    <2>1. CASE req' = r
      BY <1>3, <2>1
    <2>2. CASE req' = Woken(r, answer)
      <3>1. PICK kept, written, v :
              kept = stored' /\ written = Written' /\ v = version'
        OBVIOUS
      <3>2. Honest(Woken(r, answer)[d], kept, written, v)
        BY <1>2, <1>3, <3>1, WokenHonest
      <3> QED BY <2>2, <3>1, <3>2
    <2> QED BY <2>1, <2>2 DEF r
  <1>5. PICK all : all = req'
    OBVIOUS
  <1> QED BY <1>4 DEF AllHonest

\* Nothing more is written, and upstream stands still.
LEMMA StandsStill ==
    ASSUME HonestInv, NEW c \in Clients, NEW p \in RequestType,
           \/ req' = [req EXCEPT ![c] = p]
           \/ req' = Woken([req EXCEPT ![c] = p], Retry),
           Honest(p, stored, Written, version), UNCHANGED <<stored, late, version>>
    PROVE  AllHonest'
  <1>1. Retry \in Told /\ Retry.id = 0
    BY Names DEF Retry
  <1>2. version \in Nat
    BY DEF HonestInv, OrderInv, TypeOK
  <1>3. Written' = Written
    BY DEF Written
  <1>4. Honest(p, stored', Written', version')
    BY <1>3
  <1>5. version' \in Nat /\ version <= version' /\ stored \subseteq stored'
    BY <1>2
  <1>6. \A s \in Written' : s \in Written
    BY <1>3
  <1> HIDE DEF Retry, Written
  <1> QED BY <1>1, <1>4, <1>5, <1>6, OneIsHonest

LEMMA OneHonest ==
    ASSUME HonestInv, NEW c \in Clients
    PROVE  /\ req[c] \in RequestType /\ Stage(req[c]) /\ version \in Nat
           /\ Honest(req[c], stored, Written, version)
  BY DEF HonestInv, OrderInv, AllHonest, TypeOK, StagesOrdered

Over == {"completing", "closing", "done"}

\* A request goes on: it claims nothing new, and reports a rejection only if
\* nothing was written under its id.
LEMMA GoesOnHonestly ==
    ASSUME NEW q \in RequestType, NEW p \in RequestType, NEW kept, NEW written, NEW v \in Nat,
           Honest(q, kept, written, v),
           p.cap = q.cap, p.seen = q.seen, p.claim = q.claim, p.told \in {q.told, Retry},
           p.mode = q.mode, p.asked = q.asked, p.got \in {q.got, 0},
           p.stage \in {"idle", "recheck"} => p.stage = q.stage,
           p.stage \in Before => q.stage \in Before /\ p.plan = q.plan,
           p.plan = "rejected" => q.plan = "rejected" \/ q.stage \in Before,
           p.stage = "edge" => q.stage = "edge" \/ Kept(q, kept),
           q.stage \in Over => p.stage \in Over
    PROVE  Honest(p, kept, written, v)
  <1>1. Kept(p, kept) <=> Kept(q, kept)
    BY DEF Kept
  <1>2. p.told.id # 0 => Announced(p.told.id, kept)
    BY DEF Honest, Retry
  <1>3. p.stage \in Before \/ p.plan = "rejected" => Unwritten(p.cap, written)
    BY DEF Honest
  <1>4. p.claim # 0 => p.claim = p.cap /\ Kept(p, kept) /\ p.stage \in Over
    BY <1>1 DEF Honest, Over
  <1>5. /\ p.stage = "edge" => Kept(p, kept)
        /\ p.stage \in Before => p.plan = "none" /\ p.claim = 0
    BY <1>1 DEF Honest
  <1>6. /\ p.stage = "idle" => p.got = 0
        /\ p.mode = "live" =>
              /\ p.stage # "recheck" /\ p.asked <= v
              /\ p.got # 0 => p.asked <= p.got
    BY DEF Honest, RequestType
  <1> QED BY <1>2, <1>3, <1>4, <1>5, <1>6 DEF Honest, Over

LEMMA AcquireIsHonest ==
    ASSUME HonestInv, NEW c \in Clients, Acquire(c)
    PROVE  AllHonest'
  <1> DEFINE q == req[c]
  <1>q. /\ q \in RequestType /\ Honest(q, stored, Written, version) /\ version \in Nat
        /\ Stage(q)
    BY OneHonest
  <1>1. CASE Grant(c)
    <2>1. PICK n \in Nat : n = next' /\ n # 0 /\ next < n
      BY <1>1, IdGapsAssumption DEF Grant, TakeRow, HonestInv, OrderInv, TypeOK
    <2>2. PICK p : p = Owner(q, n)
      OBVIOUS
    <2>3. /\ req' = Woken([req EXCEPT ![c] = p], Retry) /\ q.stage = "acquiring"
          /\ UNCHANGED <<stored, late, version>>
      BY <1>1, <2>1, <2>2 DEF Grant, Wake
    <2> HIDE DEF q
    <2>4. /\ p \in RequestType /\ p.cap = n /\ p.plan = q.plan /\ p.claim = q.claim
          /\ p.told = q.told /\ p.mode = q.mode /\ p.asked = q.asked /\ p.got = q.got
          /\ p.stage = IF q.mode = "live" THEN "fetch" ELSE "recheck"
      BY <1>q, <2>2, Names DEF Owner, RequestType
    <2>5. Unwritten(n, Written)
      BY <2>1, Numbers DEF HonestInv, OrderInv, Issued, Unwritten, Written
    <2>6. Honest(p, stored, Written, version)
      BY <1>q, <2>3, <2>4, <2>5 DEF Honest, Before, Early
    <2> QED BY <2>3, <2>4, <2>6, StandsStill
  <1>p. ASSUME NEW s \in {"reading", "waiting", "done", "acquiring"}, NEW b \in BOOLEAN,
               NEW t \in {q.told, Retry}, q.stage \in {"acquiring", "reading"}
        PROVE  /\ [q EXCEPT !.stage = s, !.retried = b, !.told = t] \in RequestType
               /\ Honest([q EXCEPT !.stage = s, !.retried = b, !.told = t],
                         stored, Written, version)
    <2> HIDE DEF q
    <2>1. PICK p : p = [q EXCEPT !.stage = s, !.retried = b, !.told = t]
      OBVIOUS
    <2>2. /\ p \in RequestType /\ p.cap = q.cap /\ p.seen = q.seen /\ p.claim = q.claim
          /\ p.told = t /\ p.mode = q.mode /\ p.asked = q.asked /\ p.got = q.got
          /\ p.plan = q.plan /\ p.stage = s
      BY <1>q, <2>1, Names DEF RequestType, Told
    <2>3. Honest(p, stored, Written, version)
      BY <1>p, <1>q, <2>2, GoesOnHonestly DEF Before, Early, Over
    <2> QED BY <2>1, <2>2, <2>3
  <1>r. q.retried \in BOOLEAN
    BY <1>q DEF RequestType
  <1>2. CASE Busy(c)
    <2>1. PICK s \in {"reading", "done"} : req' = [req EXCEPT ![c].stage = s]
      BY <1>2 DEF Busy
    <2>2. [q EXCEPT !.stage = s] = [q EXCEPT !.stage = s, !.retried = q.retried, !.told = q.told]
      BY <1>q DEF RequestType
    <2>3. req' = [req EXCEPT ![c] = [q EXCEPT !.stage = s]]
      BY <2>1
    <2>4. UNCHANGED <<stored, late, version>> /\ q.stage \in {"acquiring", "reading"}
      BY <1>2 DEF Busy, d1Vars, history
    <2>5. PICK p : p = [q EXCEPT !.stage = s]
      OBVIOUS
    <2>6. p \in RequestType /\ Honest(p, stored, Written, version)
      BY <1>p, <1>r, <2>2, <2>4, <2>5
    <2> QED BY <2>3, <2>4, <2>5, <2>6, StandsStill
  <1>3. CASE OwnerGone(c)
    <2>1. PICK p : p = Again(q)
      OBVIOUS
    <2>2. /\ req' = [req EXCEPT ![c] = p] /\ UNCHANGED <<stored, late, version>>
          /\ q.stage = "reading"
      BY <1>3, <2>1 DEF OwnerGone, Holds, d1Vars, history
    <2>3. p \in RequestType /\ Honest(p, stored, Written, version)
      BY <1>p, <2>1, <2>2 DEF Again
    <2> QED BY <2>2, <2>3, StandsStill
  <1>4. CASE Join(c)
    <2>1. PICK p : p = [q EXCEPT !.stage = "waiting"]
      OBVIOUS
    <2>2. /\ UNCHANGED <<stored, late, version>> /\ q.stage = "reading"
          /\ \/ req' = [req EXCEPT ![c].stage = "waiting"]
             \/ req' = [Woken(req, Retry) EXCEPT ![c].stage = "waiting"]
      BY <1>4 DEF Join, Holds, d1Vars, history
    <2>3. [q EXCEPT !.stage = "waiting"]
            = [q EXCEPT !.stage = "waiting", !.retried = q.retried, !.told = q.told]
      BY <1>q DEF RequestType
    <2>4. p \in RequestType /\ Honest(p, stored, Written, version)
      BY <1>p, <1>r, <2>1, <2>2, <2>3
    <2>5. CASE req' = [req EXCEPT ![c].stage = "waiting"]
      <3>1. req' = [req EXCEPT ![c] = p]
        BY <2>1, <2>5
      <3> QED BY <2>2, <2>4, <3>1, StandsStill
    <2>6. CASE req' = [Woken(req, Retry) EXCEPT ![c].stage = "waiting"]
      <3>1. /\ req \in [Clients -> RequestType] /\ Retry \in Told /\ Retry.id = 0
            /\ AllHonest
        BY Names DEF HonestInv, OrderInv, TypeOK, Retry
      <3>2. /\ Woken(req, Retry) \in [Clients -> RequestType]
            /\ \A d \in Clients : Honest(Woken(req, Retry)[d], stored, Written, version)
        BY <3>1, WokenType, WokenHonest DEF AllHonest
      <3>3. Woken(req, Retry)[c] = q
        BY <2>2 DEF Woken
      <3>4. \A d \in Clients : req'[d] = IF d = c THEN p ELSE Woken(req, Retry)[d]
        <4> HIDE DEF q
        <4> QED BY <2>1, <2>6, <3>2, <3>3
      <3>5. \A d \in Clients : Honest(req'[d], stored, Written, version)
        BY <2>4, <3>2, <3>4
      <3>6. stored' = stored /\ Written' = Written /\ version' = version
        BY <2>2 DEF Written
      <3> QED BY <3>5, <3>6 DEF AllHonest
    <2> QED BY <2>2, <2>5, <2>6
  <1>t. ASSUME req' = [req EXCEPT ![c] = Thrown(@)], UNCHANGED <<stored, late, version>>,
               q.stage \in {"acquiring", "reading"}
        PROVE  AllHonest'
    <2>1. PICK p : p = Thrown(q) /\ req' = [req EXCEPT ![c] = p]
      BY <1>t
    <2>2. PICK s \in {"done", "acquiring"}, b \in BOOLEAN : p = [q EXCEPT !.stage = s, !.retried = b]
      BY <2>1 DEF Thrown
    <2>3. [q EXCEPT !.stage = s, !.retried = b]
            = [q EXCEPT !.stage = s, !.retried = b, !.told = q.told]
      BY <1>q DEF RequestType
    <2>4. p \in RequestType /\ Honest(p, stored, Written, version)
      BY <1>p, <1>t, <2>2, <2>3
    <2> QED BY <1>t, <2>1, <2>4, StandsStill
  <1>5. CASE AcquireFails(c) \/ ReadOwnerFails(c)
    BY <1>5, <1>t DEF AcquireFails, ReadOwnerFails, Holds, d1Vars, history
  <1> QED BY <1>1, <1>2, <1>3, <1>4, <1>5 DEF Acquire

LEMMA OwnIsHonest ==
    ASSUME HonestInv, NEW c \in Clients,
           (\E m \in Modes : Start(c, m)) \/ Follow(c) \/ Own(c)
    PROVE  AllHonest'
  <1> DEFINE q == req[c]
  <1>q. /\ q \in RequestType /\ Honest(q, stored, Written, version) /\ version \in Nat
        /\ Stage(q)
    BY OneHonest
  <1>v. /\ body.seen \in Nat /\ edge \in Nat /\ Retry \in Told
    BY Names DEF HonestInv, OrderInv, TypeOK, Bodies
  <1>w. UNCHANGED <<stored, late, version>>
    BY DEF Start, Follow, Own, Recheck, Fetch, GiveUp, SendRenewal, ServeRenewal,
           RefuseRenewal, RenewalFails, d1Vars, history
  <1>1. ASSUME NEW m \in Modes, Start(c, m) PROVE AllHonest'
    <2>1. PICK asked \in Nat : asked = IF m = "live" THEN version ELSE 0
      BY <1>q
    <2>2. PICK p : p = [q EXCEPT !.stage = "acquiring", !.mode = m, !.asked = asked]
      OBVIOUS
    <2>3. req' = [req EXCEPT ![c] = p] /\ q.stage = "idle"
      BY <1>1, <2>1, <2>2 DEF Start
    <2> HIDE DEF q
    <2>4. /\ p \in RequestType /\ p.cap = q.cap /\ p.plan = q.plan /\ p.claim = q.claim
          /\ p.told = q.told /\ p.mode = m /\ p.asked = asked /\ p.got = q.got
          /\ p.stage = "acquiring"
      BY <1>q, <2>2, ModesAssumption, Names DEF RequestType
    <2>5. Honest(p, stored, Written, version)
      BY <1>q, <2>1, <2>3, <2>4 DEF Honest, Before, Early
    <2> QED BY <1>w, <2>3, <2>4, <2>5, StandsStill
  <1>g. ASSUME NEW v \in Nat, q.stage = "woken", q.mode # "live",
               req' = [req EXCEPT ![c].stage = "done", ![c].got = v]
        PROVE  AllHonest'
    <2>1. PICK p : p = [q EXCEPT !.stage = "done", !.got = v]
      OBVIOUS
    <2>2. req' = [req EXCEPT ![c] = p]
      BY <1>g, <2>1
    <2> HIDE DEF q
    <2>3. /\ p \in RequestType /\ p.cap = q.cap /\ p.plan = q.plan /\ p.claim = q.claim
          /\ p.told = q.told /\ p.mode = q.mode /\ p.stage = "done"
      BY <1>q, <2>1, Names DEF RequestType
    <2>4. Honest(p, stored, Written, version)
      BY <1>g, <1>q, <2>3 DEF Honest, Before, Early
    <2> QED BY <1>w, <2>2, <2>3, <2>4, StandsStill
  <1>2. CASE Follow(c)
    <2>1. CASE req' = [req EXCEPT ![c] = Again(@)]
      <3>1. PICK p : p = Again(q) /\ req' = [req EXCEPT ![c] = p]
        BY <2>1
      <3>2. q.stage = "woken"
        BY <1>2 DEF Follow
      <3> HIDE DEF q
      <3>3. /\ p \in RequestType /\ p.cap = q.cap /\ p.seen = q.seen /\ p.claim = q.claim
            /\ p.told = Retry /\ p.mode = q.mode /\ p.asked = q.asked /\ p.got = q.got
            /\ p.plan = q.plan /\ p.stage = "acquiring"
        BY <1>q, <1>v, <3>1, Names DEF Again, RequestType, Told
      <3>4. Honest(p, stored, Written, version)
        BY <1>q, <3>2, <3>3, GoesOnHonestly DEF Before, Early, Over
      <3> QED BY <1>w, <3>1, <3>3, <3>4, StandsStill
    <2> QED BY <1>2, <1>g, <1>v, <2>1 DEF Follow
  <1>3. CASE Recheck(c)
    <2>1. PICK s \in {"completing", "fetch"}, v \in Nat, plan \in {"none", "shared", "edge_only"} :
            /\ req' = [req EXCEPT ![c].stage = s, ![c].got = v, ![c].plan = plan]
            /\ s = "fetch" => plan = "none"
      <3>1. CASE req' = [req EXCEPT ![c].stage = "fetch"]
        <4>1. q.plan = "none" /\ q.got \in Nat
          BY <1>3, <1>q DEF Recheck, Honest, Before, Early, RequestType
        <4>2. req' = [req EXCEPT ![c].stage = "fetch", ![c].got = q.got, ![c].plan = "none"]
          <5>1. [q EXCEPT !.stage = "fetch", !.got = q.got, !.plan = "none"]
                  = [q EXCEPT !.stage = "fetch"]
            BY <1>q, <4>1 DEF RequestType
          <5>2. [req EXCEPT ![c].stage = "fetch"] = [req EXCEPT ![c] = [q EXCEPT !.stage = "fetch"]]
            OBVIOUS
          <5>3. [req EXCEPT ![c].stage = "fetch", ![c].got = q.got, ![c].plan = "none"]
                  = [req EXCEPT ![c] = [q EXCEPT !.stage = "fetch", !.got = q.got, !.plan = "none"]]
            OBVIOUS
          <5> QED BY <3>1, <5>1, <5>2, <5>3
        <4> QED BY <4>1, <4>2
      <3>2. CASE req' # [req EXCEPT ![c].stage = "fetch"]
        BY <1>3, <1>v, <3>2 DEF Recheck
      <3> QED BY <3>1, <3>2
    <2>2. PICK p : p = [q EXCEPT !.stage = s, !.got = v, !.plan = plan]
      OBVIOUS
    <2>3. req' = [req EXCEPT ![c] = p] /\ q.stage = "recheck"
      BY <1>3, <2>1, <2>2 DEF Recheck
    <2> HIDE DEF q
    <2>4. /\ p \in RequestType /\ p.cap = q.cap /\ p.seen = q.seen /\ p.plan = plan
          /\ p.claim = q.claim /\ p.told = q.told /\ p.mode = q.mode /\ p.stage = s
      BY <1>q, <2>2, Names DEF RequestType
    <2>5. Honest(p, stored, Written, version)
      BY <1>q, <2>1, <2>3, <2>4 DEF Honest, Before, Early
    <2> QED BY <1>w, <2>3, <2>4, <2>5, StandsStill
  <1>4. CASE Fetch(c)
    <2>1. PICK p : p = [q EXCEPT !.stage = "fetched", !.seen = version, !.got = version]
      OBVIOUS
    <2>2. req' = [req EXCEPT ![c] = p] /\ q.stage = "fetch"
      BY <1>4, <2>1 DEF Fetch
    <2> HIDE DEF q
    <2>3. /\ p \in RequestType /\ p.cap = q.cap /\ p.plan = q.plan /\ p.asked = q.asked
          /\ p.claim = q.claim /\ p.told = q.told /\ p.mode = q.mode /\ p.stage = "fetched"
          /\ p.got = version
      BY <1>q, <2>1, Names DEF RequestType
    <2>4. Honest(p, stored, Written, version)
      BY <1>q, <2>2, <2>3 DEF Honest, Before, Early
    <2> QED BY <1>w, <2>2, <2>3, <2>4, StandsStill
  <1>5. CASE GiveUp(c)
    <2>1. PICK p : p = [q EXCEPT !.stage = "completing", !.plan = "failed", !.got = 0]
      OBVIOUS
    <2>2. /\ req' = [req EXCEPT ![c] = p]
          /\ q.stage \in {"recheck", "fetch", "fetched", "write"}
      BY <1>5, <2>1 DEF GiveUp
    <2> HIDE DEF q
    <2>3. /\ p \in RequestType /\ p.cap = q.cap /\ p.seen = q.seen /\ p.claim = q.claim
          /\ p.told = q.told /\ p.mode = q.mode /\ p.asked = q.asked /\ p.got = 0
          /\ p.plan = "failed" /\ p.stage = "completing"
      BY <1>q, <2>1, Names DEF RequestType
    <2>4. Honest(p, stored, Written, version)
      BY <1>q, <2>2, <2>3, GoesOnHonestly DEF Before, Early, Over
    <2> QED BY <1>w, <2>2, <2>3, <2>4, StandsStill
  <1>6. CASE SendRenewal(c)
    <2>1. PICK p : p = [q EXCEPT !.pending = TRUE]
      OBVIOUS
    <2>2. req' = [req EXCEPT ![c] = p]
      BY <1>6, <2>1 DEF SendRenewal
    <2> HIDE DEF q
    <2>3. /\ p \in RequestType /\ p.cap = q.cap /\ p.seen = q.seen /\ p.claim = q.claim
          /\ p.told = q.told /\ p.mode = q.mode /\ p.asked = q.asked /\ p.got = q.got
          /\ p.plan = q.plan /\ p.stage = q.stage
      BY <1>q, <2>1 DEF RequestType
    <2>4. Honest(p, stored, Written, version)
      BY <1>q, <2>3, GoesOnHonestly
    <2> QED BY <1>w, <2>2, <2>3, <2>4, StandsStill
  <1>7. ASSUME NEW p, p = Renewed(q) \/ p = Refused(q), req' = [req EXCEPT ![c] = p]
        PROVE  AllHonest'
    <2> HIDE DEF q
    <2>1. /\ p.cap = q.cap /\ p.seen = q.seen /\ p.claim = q.claim
          /\ p.told = q.told /\ p.mode = q.mode /\ p.asked = q.asked /\ p.got = q.got
          /\ \/ p.plan = q.plan /\ p.stage = q.stage
             \/ p.plan = q.plan /\ q.stage = "authorize" /\ p.stage = "write"
             \/ p.plan = "rejected" /\ q.stage = "authorize" /\ p.stage = "done"
      BY <1>7, <1>q DEF Renewed, Refused, RequestType
    <2>2. p \in RequestType
      <3>1. CASE p = Renewed(q)
        BY <1>q, <3>1, Names DEF Renewed, RequestType
      <3>2. CASE p = Refused(q) /\ q.stage = "authorize"
        BY <1>q, <3>2, Names DEF Refused, RequestType
      <3>3. CASE p = Refused(q) /\ q.stage # "authorize"
        BY <1>q, <3>3, Names DEF Refused, RequestType
      <3> QED BY <1>7, <3>1, <3>2, <3>3
    <2>3. Honest(p, stored, Written, version)
      BY <1>q, <2>1, <2>2, GoesOnHonestly DEF Before, Early, Over
    <2> QED BY <1>7, <1>w, <2>2, <2>3, StandsStill
  <1>8. CASE ServeRenewal(c) \/ RefuseRenewal(c) \/ RenewalFails(c)
    <2>1. \/ req' = [req EXCEPT ![c] = Renewed(q)]
          \/ req' = [req EXCEPT ![c] = Refused(q)]
      BY <1>8 DEF ServeRenewal, RefuseRenewal, RenewalFails
    <2> QED BY <1>7, <2>1
  <1> QED BY <1>1, <1>2, <1>3, <1>4, <1>5, <1>6, <1>8 DEF Own

\* A request whose statement may run.
LEMMA WritesHonestly ==
    ASSUME HonestInv, NEW c \in Clients, NEW p \in RequestType, req[c].stage = "write",
           req' = [req EXCEPT ![c] = p], UNCHANGED version,
           p.cap = req[c].cap, p.seen = req[c].seen, p.claim = req[c].claim,
           p.told = req[c].told, p.mode = req[c].mode, p.asked = req[c].asked,
           p.got \in {req[c].got, 0}, p.stage \in {"edge", "receipt", "done"},
           p.plan # "rejected", p.stage = "edge" => Kept(p, stored'),
           stored \subseteq stored',
           \A s \in Written' : s \in Written \/ s.id = req[c].cap
    PROVE  AllHonest'
  <1>1. PICK q : q = req[c]
    OBVIOUS
  <1>2. /\ q \in RequestType /\ Honest(q, stored, Written, version) /\ version \in Nat
        /\ q.cap # 0 /\ q.claim = 0
    BY <1>1, OneHonest DEF Stage, Carrying, Honest, Before
  <1>3. PICK kept, now : kept = stored' /\ now = Written'
    OBVIOUS
  <1>4. p.told.id # 0 => Announced(p.told.id, kept)
    BY <1>1, <1>2, <1>3 DEF Honest, Announced
  <1>5. p.mode = "live" => p.asked <= version /\ (p.got # 0 => p.asked <= p.got)
    BY <1>1, <1>2 DEF Honest
  <1>6. Honest(p, kept, now, version)
    BY <1>1, <1>2, <1>3, <1>4, <1>5 DEF Honest, Before, Early
  <1>7. Retry \in Told /\ Retry.id = 0
    BY Names DEF Retry
  <1>8. \A s \in Written' : s \in Written \/ (s.id = req[c].cap /\ req[c].cap # 0)
    BY <1>1, <1>2
  <1>9. /\ Honest(p, stored', Written', version') /\ version' \in Nat
        /\ version <= version'
    BY <1>2, <1>3, <1>6
  <1> HIDE DEF Retry, Written
  <1> QED BY <1>7, <1>8, <1>9, OneIsHonest

LEMMA PublishIsHonest ==
    ASSUME HonestInv, NEW c \in Clients, PublishBody(c)
    PROVE  AllHonest'
  <1> DEFINE q == req[c]
             w == [id |-> q.cap, seen |-> q.seen]
  <1>q. /\ q \in RequestType /\ Honest(q, stored, Written, version) /\ version \in Nat
        /\ Stage(q)
    BY OneHonest
  <1>w. UNCHANGED version
    BY DEF PublishBody, Publish, Write, WriteFails, ReadReceipt, ReadReceiptFails,
           AuthorizeEdge, AuthorizeEdgeFails, SkipWrite, WriteEdge
  <1>g. ASSUME NEW p \in RequestType, req' = [req EXCEPT ![c] = p], UNCHANGED <<stored, late>>,
               p.cap = q.cap, p.seen = q.seen, p.claim = q.claim, p.told = q.told,
               p.mode = q.mode, p.asked = q.asked, p.got = q.got,
               p.stage \in {"authorize", "done", "receipt", "edge", "edge_only", "completing"},
               q.stage \in {"fetched", "write", "receipt"},
               p.stage = "authorize" => q.stage = "fetched" /\ p.plan = q.plan,
               p.plan = "rejected" => q.plan = "rejected" \/ q.stage # "receipt",
               p.stage = "edge" => Kept(q, stored)
        PROVE  AllHonest'
    <2>1. UNCHANGED <<stored, late, version>> /\ req' = [req EXCEPT ![c] = p]
      BY <1>g, <1>w
    <2> HIDE DEF q
    <2>2. /\ p.stage \in {"idle", "recheck"} => p.stage = q.stage
          /\ p.stage \in Before => q.stage \in Before /\ p.plan = q.plan
          /\ p.plan = "rejected" => q.plan = "rejected" \/ q.stage \in Before
          /\ q.stage \in Over => p.stage \in Over
      BY <1>g DEF Before, Early, Over
    <2>3. Honest(p, stored, Written, version)
      BY <1>g, <1>q, <2>2, GoesOnHonestly
    <2> QED BY <2>1, <2>3, <1>g, StandsStill
  <1>s. q.plan \in Outcomes
    BY <1>q DEF RequestType
  <1>1. CASE Publish(c)
    <2>1. UNCHANGED <<stored, late>> /\ q.stage = "fetched"
      BY <1>1 DEF Publish, d1Vars, history
    <2>2. CASE q.active
      <3>1. PICK p : p = [q EXCEPT !.stage = "authorize", !.pending = TRUE]
        OBVIOUS
      <3>2. req' = [req EXCEPT ![c] = p]
        BY <1>1, <2>2, <3>1 DEF Publish
      <3> HIDE DEF q
      <3>3. /\ p \in RequestType /\ p.cap = q.cap /\ p.seen = q.seen /\ p.claim = q.claim
            /\ p.told = q.told /\ p.mode = q.mode /\ p.asked = q.asked /\ p.got = q.got
            /\ p.plan = q.plan /\ p.stage = "authorize"
        BY <1>q, <3>1, Names DEF RequestType
      <3> QED BY <1>g, <2>1, <3>2, <3>3
    <2>3. CASE ~q.active
      <3>1. PICK p : p = [q EXCEPT !.stage = "done", !.plan = "rejected", !.ack = "lost"]
        OBVIOUS
      <3>2. req' = [req EXCEPT ![c] = p]
        BY <1>1, <2>3, <3>1 DEF Publish
      <3> HIDE DEF q
      <3>3. /\ p \in RequestType /\ p.cap = q.cap /\ p.seen = q.seen /\ p.claim = q.claim
            /\ p.told = q.told /\ p.mode = q.mode /\ p.asked = q.asked /\ p.got = q.got
            /\ p.plan = "rejected" /\ p.stage = "done"
        BY <1>q, <3>1, Names DEF RequestType
      <3> QED BY <1>g, <2>1, <3>2, <3>3
    <2> QED BY <2>2, <2>3
  <1>m. ASSUME NEW s \in {"receipt", "edge", "edge_only", "completing"},
               NEW plan \in Outcomes,
               req' = [req EXCEPT ![c].stage = s, ![c].plan = plan],
               UNCHANGED <<stored, late>>, q.stage \in {"write", "receipt"},
               plan = "rejected" => q.plan = "rejected" \/ q.stage # "receipt",
               s = "edge" => Kept(q, stored)
        PROVE  AllHonest'
    <2>1. PICK p : p = [q EXCEPT !.stage = s, !.plan = plan]
      OBVIOUS
    <2>2. req' = [req EXCEPT ![c] = p]
      BY <1>m, <2>1
    <2> HIDE DEF q
    <2>3. /\ p \in RequestType /\ p.cap = q.cap /\ p.seen = q.seen /\ p.claim = q.claim
          /\ p.told = q.told /\ p.mode = q.mode /\ p.asked = q.asked /\ p.got = q.got
          /\ p.plan = plan /\ p.stage = s
      BY <1>q, <2>1, Names DEF RequestType
    <2> QED BY <1>g, <1>m, <2>2, <2>3
  <1>k. ASSUME NEW s \in {"edge", "edge_only", "completing"},
               req' = [req EXCEPT ![c].stage = s],
               UNCHANGED <<stored, late>>, q.stage \in {"write", "receipt"},
               s = "edge" => Kept(q, stored)
        PROVE  AllHonest'
    <2>1. PICK p : p = [q EXCEPT !.stage = s, !.plan = q.plan]
      OBVIOUS
    <2>2. p = [q EXCEPT !.stage = s]
      BY <1>q, <2>1 DEF RequestType
    <2>3. req' = [req EXCEPT ![c] = p]
      BY <1>k, <2>2
    <2> HIDE DEF q
    <2>4. /\ p \in RequestType /\ p.cap = q.cap /\ p.seen = q.seen /\ p.claim = q.claim
          /\ p.told = q.told /\ p.mode = q.mode /\ p.asked = q.asked /\ p.got = q.got
          /\ p.plan = q.plan /\ p.stage = s
      BY <1>q, <1>s, <2>1, Names DEF RequestType
    <2> QED BY <1>g, <1>k, <2>3, <2>4
  <1>b. ASSUME NEW p,
               \/ p = [q EXCEPT !.stage = "edge"]
               \/ p = [q EXCEPT !.stage = "receipt", !.plan = "unknown"],
               req' = [req EXCEPT ![c] = p], q.stage = "write",
               p.stage = "edge" => w \in stored',
               stored \subseteq stored',
               \A x \in Written' : x \in Written \/ x = w
        PROVE  AllHonest'
    <2>0. q.plan = "none"
      BY <1>b, <1>q DEF Honest, Before
    <2>1. /\ p \in RequestType /\ p.cap = q.cap /\ p.seen = q.seen /\ p.claim = q.claim
          /\ p.told = q.told /\ p.mode = q.mode /\ p.asked = q.asked /\ p.got = q.got
          /\ p.plan \in {"none", "unknown"} /\ p.stage \in {"edge", "receipt"}
      <3> HIDE DEF q
      <3> QED BY <1>b, <1>q, <2>0, Names DEF RequestType
    <2>2. p.stage = "edge" => Kept(p, stored')
      BY <1>b, <2>1 DEF Kept
    <2>3. \A x \in Written' : x \in Written \/ x.id = q.cap
      BY <1>b
    <2> HIDE DEF w, Written
    <2> QED BY <1>b, <1>w, <2>1, <2>2, <2>3, WritesHonestly
  <1>x. ASSUME Store(q.cap, q.seen), UNCHANGED late
        PROVE  /\ w \in stored' /\ stored \subseteq stored'
               /\ \A x \in Written' : x \in Written \/ x = w
    BY <1>x DEF Store, Written
  <1>2. CASE Write(c)
    <2>1. q.stage = "write"
      BY <1>2 DEF Write
    <2>2. CASE /\ UNCHANGED <<stored, late>>
               /\ req' = [req EXCEPT ![c].stage = "receipt", ![c].plan = "rejected"]
      BY <1>m, <2>1, <2>2, Names
    <2>3. CASE /\ Store(q.cap, q.seen) /\ UNCHANGED late
               /\ req' = [req EXCEPT ![c].stage = "edge"]
      <3>1. PICK p : p = [q EXCEPT !.stage = "edge"]
        OBVIOUS
      <3>2. req' = [req EXCEPT ![c] = p]
        BY <2>3, <3>1
      <3> QED BY <1>b, <1>x, <2>1, <2>3, <3>1, <3>2
    <2> QED BY <1>2, <2>2, <2>3 DEF Write
  <1>3. CASE WriteFails(c)
    <2>1. PICK p : p = [q EXCEPT !.stage = "receipt", !.plan = "unknown"]
      OBVIOUS
    <2>2. /\ req' = [req EXCEPT ![c] = p] /\ q.stage = "write" /\ p.stage = "receipt"
      BY <1>3, <1>q, <2>1 DEF WriteFails, RequestType
    <2>3. /\ stored \subseteq stored'
          /\ \A x \in Written' : x \in Written \/ x = w
      <3>1. CASE Store(q.cap, q.seen) /\ UNCHANGED late
        BY <1>x, <3>1
      <3>2. CASE UNCHANGED <<body, stored, late>>
        BY <3>2 DEF Written
      <3>3. CASE late' = late \cup {w} /\ UNCHANGED stored
        BY <3>3 DEF Written
      <3> QED BY <1>3, <3>1, <3>2, <3>3 DEF WriteFails
    <2> QED BY <1>b, <2>1, <2>2, <2>3
  <1>4. CASE ReadReceipt(c)
    <2>1. UNCHANGED <<stored, late>> /\ q.stage = "receipt"
      BY <1>4 DEF ReadReceipt, d1Vars, history
    <2>2. CASE req' = [req EXCEPT ![c].stage = "completing"]
      BY <1>k, <2>1, <2>2
    <2>3. CASE body = w /\ req' = [req EXCEPT ![c].stage = "edge"]
      <3>1. body.id # 0
        BY <1>q, <2>1, <2>3 DEF Stage, Carrying
      <3>2. w \in stored
        BY <2>3, <3>1 DEF HonestInv, OrderInv, Separated
      <3> QED BY <1>k, <2>1, <2>3, <3>2 DEF Kept
    <2> QED BY <1>4, <2>2, <2>3 DEF ReadReceipt
  <1>5. CASE ReadReceiptFails(c) \/ AuthorizeEdgeFails(c)
    <2>1. /\ UNCHANGED <<stored, late>> /\ q.stage \in {"receipt", "write"}
          /\ req' = [req EXCEPT ![c].stage = "completing", ![c].plan = "unknown"]
      BY <1>5 DEF ReadReceiptFails, AuthorizeEdgeFails, d1Vars, history
    <2> QED BY <1>m, <2>1, Names
  <1>6. CASE AuthorizeEdge(c)
    <2>1. UNCHANGED <<stored, late>> /\ q.stage = "write"
      BY <1>6 DEF AuthorizeEdge, d1Vars, history
    <2> QED BY <1>6, <1>k, <1>m, <2>1, Names DEF AuthorizeEdge
  <1>7. CASE SkipWrite(c)
    <2>1. UNCHANGED <<stored, late>> /\ q.stage = "write"
      BY <1>7 DEF SkipWrite, d1Vars, history
    <2>2. PICK plan \in {"failed", "none"} :
            req' = [req EXCEPT ![c].stage = "completing", ![c].plan = plan]
      BY <1>7 DEF SkipWrite
    <2> QED BY <1>m, <2>1, <2>2, Names
  <1>8. CASE WriteEdge(c)
    <2>1. PICK plan \in {"shared", "edge_only", "failed"}, claim \in Nat :
            /\ req' = [req EXCEPT ![c].stage = "completing", ![c].plan = plan, ![c].claim = claim]
            /\ claim = IF q.stage = "edge" THEN q.cap ELSE q.claim
      <3>1. q.cap \in Nat /\ q.claim \in Nat
        BY <1>q DEF RequestType
      <3> QED BY <1>8, <3>1 DEF WriteEdge
    <2>2. PICK p : p = [q EXCEPT !.stage = "completing", !.plan = plan, !.claim = claim]
      OBVIOUS
    <2>3. /\ req' = [req EXCEPT ![c] = p] /\ UNCHANGED <<stored, late>>
          /\ q.stage \in {"edge", "edge_only"}
      BY <1>8, <2>1, <2>2 DEF WriteEdge, d1Vars, history
    <2> HIDE DEF q
    <2>4. /\ p \in RequestType /\ p.cap = q.cap /\ p.seen = q.seen /\ p.claim = claim
          /\ p.told = q.told /\ p.mode = q.mode /\ p.asked = q.asked /\ p.got = q.got
          /\ p.plan = plan /\ p.stage = "completing"
      BY <1>q, <2>1, <2>2, Names DEF RequestType
    <2>5. Kept(p, stored) <=> Kept(q, stored)
      BY <2>4 DEF Kept
    <2>6. Honest(p, stored, Written, version)
      BY <1>q, <2>1, <2>3, <2>4, <2>5 DEF Honest, Before, Early
    <2> QED BY <1>w, <2>3, <2>4, <2>6, StandsStill
  <1> QED BY <1>1, <1>2, <1>3, <1>4, <1>5, <1>6, <1>7, <1>8 DEF PublishBody

LEMMA FinishIsHonest ==
    ASSUME HonestInv, NEW c \in Clients, Finish(c)
    PROVE  AllHonest'
  <1> DEFINE q == req[c]
  <1>q. /\ q \in RequestType /\ Honest(q, stored, Written, version) /\ version \in Nat
        /\ req \in [Clients -> RequestType]
    BY OneHonest DEF HonestInv, OrderInv, TypeOK
  <1>w. UNCHANGED <<stored, late, version>>
    BY DEF Finish, Complete, ServeCompletion, RefuseCompletion, CompletionFails, d1Vars, history
  <1>g. ASSUME NEW s \in {"done", "closing"}, NEW b \in BOOLEAN,
               NEW a \in {"none", "accepted", "lost", "unknown"}, NEW p,
               p = [q EXCEPT !.stage = s, !.active = b, !.ack = a],
               q.stage \in {"completing", "closing"}
        PROVE  p \in RequestType /\ Honest(p, stored, Written, version)
    <2> HIDE DEF q
    <2>1. /\ p \in RequestType /\ p.cap = q.cap /\ p.seen = q.seen /\ p.claim = q.claim
          /\ p.told = q.told /\ p.mode = q.mode /\ p.asked = q.asked /\ p.got = q.got
          /\ p.plan = q.plan /\ p.stage = s
      BY <1>g, <1>q, Names DEF RequestType
    <2>2. /\ p.stage \in Over /\ q.stage \in Over
          /\ p.stage \notin Before \cup {"idle", "recheck", "edge"}
      BY <1>g, <2>1 DEF Before, Early, Over
    <2>3. Honest(p, stored, Written, version)
      BY <1>q, <2>1, <2>2, GoesOnHonestly
    <2> QED BY <2>1, <2>3
  <1>d. ASSUME NEW a \in {"accepted", "lost", "unknown"}, NEW p,
               p = [q EXCEPT !.stage = "done", !.ack = a], q.stage \in {"completing", "closing"}
        PROVE  p \in RequestType /\ Honest(p, stored, Written, version)
    <2>1. q.active \in BOOLEAN
      BY <1>q DEF RequestType
    <2>2. p = [q EXCEPT !.stage = "done", !.active = q.active, !.ack = a]
      BY <1>d, <1>q DEF RequestType
    <2> HIDE DEF q
    <2> QED BY <1>g, <1>d, <2>1, <2>2
  <1>1. CASE Complete(c)
    <2>1. CASE req' = [req EXCEPT ![c].stage = "done", ![c].ack = "lost"]
      <3>1. PICK p : p = [q EXCEPT !.stage = "done", !.ack = "lost"]
        OBVIOUS
      <3>2. req' = [req EXCEPT ![c] = p] /\ q.stage = "completing"
        BY <1>1, <2>1, <3>1 DEF Complete
      <3>3. p \in RequestType /\ Honest(p, stored, Written, version)
        BY <1>d, <3>1, <3>2
      <3> QED BY <1>w, <3>2, <3>3, StandsStill
    <2>2. CASE req' = [req EXCEPT ![c].stage = "closing", ![c].active = FALSE]
      <3>1. PICK p : p = [q EXCEPT !.stage = "closing", !.active = FALSE]
        OBVIOUS
      <3>2. req' = [req EXCEPT ![c] = p] /\ q.stage = "completing"
        BY <1>1, <2>2, <3>1 DEF Complete
      <3>3. /\ q.ack \in {"none", "accepted", "lost", "unknown"}
            /\ p = [q EXCEPT !.stage = "closing", !.active = FALSE, !.ack = q.ack]
        BY <1>q, <3>1 DEF RequestType
      <3>4. p \in RequestType /\ Honest(p, stored, Written, version)
        <4> HIDE DEF q
        <4> QED BY <1>g, <3>2, <3>3
      <3> QED BY <1>w, <3>2, <3>4, StandsStill
    <2> QED BY <1>1, <2>1, <2>2 DEF Complete
  <1>2. CASE ServeCompletion(c)
    <2>1. PICK a \in {"accepted", "lost"} : a = IF row.left > 0 THEN "accepted" ELSE "lost"
      OBVIOUS
    <2>2. PICK p : p = [q EXCEPT !.stage = "done", !.ack = a]
      OBVIOUS
    <2>3. PICK answer :
            answer = IF row.left > 0 THEN [kind |-> q.plan, id |-> q.claim] ELSE Retry
      OBVIOUS
    <2>4. /\ q.stage = "closing"
          /\ req' = [req EXCEPT ![c] = p] \/ req' = Woken([req EXCEPT ![c] = p], answer)
      BY <1>2, <2>1, <2>2, <2>3 DEF ServeCompletion, Wake
    <2>5. p \in RequestType /\ Honest(p, stored, Written, version)
      BY <1>d, <2>2, <2>4
    <2>6. answer \in Told /\ (answer.id = 0 \/ Announced(answer.id, stored))
      <3>1. q.claim # 0 => Announced(q.claim, stored)
        BY <1>q DEF Honest, Kept, Announced
      <3>2. q.plan \in Outcomes /\ q.claim \in Nat
        BY <1>q DEF RequestType
      <3> HIDE DEF q
      <3> QED BY <2>3, <3>1, <3>2, Names DEF Told, Retry
    <2>7. /\ stored' = stored /\ Written' = Written /\ version' = version
      BY <1>w DEF Written
    <2>8. /\ answer.id = 0 \/ Announced(answer.id, stored')
          /\ Honest(p, stored', Written', version') /\ version' \in Nat
          /\ version <= version' /\ stored \subseteq stored'
          /\ \A s \in Written' : s \in Written
      BY <1>q, <2>5, <2>6, <2>7
    <2> HIDE DEF q, Written
    <2> QED BY <2>4, <2>5, <2>6, <2>8, OneIsHonest
  <1>3. CASE RefuseCompletion(c) \/ CompletionFails(c)
    <2>1. PICK a \in {"lost", "unknown"} : req' = [req EXCEPT ![c].stage = "done", ![c].ack = a]
      BY <1>3 DEF RefuseCompletion, CompletionFails
    <2>2. PICK p : p = [q EXCEPT !.stage = "done", !.ack = a]
      OBVIOUS
    <2>3. req' = [req EXCEPT ![c] = p] /\ q.stage = "closing"
      BY <1>3, <2>1, <2>2 DEF RefuseCompletion, CompletionFails
    <2>4. p \in RequestType /\ Honest(p, stored, Written, version)
      BY <1>d, <2>2, <2>3
    <2> QED BY <1>w, <2>3, <2>4, StandsStill
  <1> QED BY <1>1, <1>2, <1>3 DEF Finish

LEMMA DieIsHonest ==
    ASSUME HonestInv, NEW c \in Clients, Die(c)
    PROVE  AllHonest'
  <1> DEFINE q == req[c]
  <1>q. q \in RequestType /\ Honest(q, stored, Written, version) /\ version \in Nat
    BY OneHonest
  <1>1. PICK p : p = [q EXCEPT !.stage = "done", !.active = FALSE, !.pending = FALSE, !.got = 0]
    OBVIOUS
  <1>2. req' = [req EXCEPT ![c] = p] /\ UNCHANGED <<stored, version>>
    BY <1>1 DEF Die, history
  <1>3. CASE UNCHANGED late
    <2> HIDE DEF q
    <2>1. /\ p \in RequestType /\ p.cap = q.cap /\ p.seen = q.seen /\ p.claim = q.claim
          /\ p.told = q.told /\ p.mode = q.mode /\ p.asked = q.asked /\ p.got = 0
          /\ p.plan = q.plan /\ p.stage = "done"
      BY <1>1, <1>q, Names DEF RequestType
    <2>2. Honest(p, stored, Written, version)
      BY <1>q, <2>1, GoesOnHonestly DEF Before, Early, Over
    <2> QED BY <1>2, <1>3, <2>1, <2>2, StandsStill
  <1>4. CASE /\ q.stage = "write"
             /\ late' = late \cup {[id |-> q.cap, seen |-> q.seen]}
    <2>1. stored \subseteq stored' /\ \A s \in Written' : s \in Written \/ s.id = q.cap
      BY <1>2, <1>4 DEF Written
    <2>2. p.stage = "done" /\ p.plan = q.plan /\ p \in RequestType /\ p.cap = q.cap
          /\ p.seen = q.seen /\ p.claim = q.claim /\ p.told = q.told /\ p.mode = q.mode
          /\ p.asked = q.asked /\ p.got = 0
      <3> HIDE DEF q
      <3> QED BY <1>1, <1>q, Names DEF RequestType
    <2>3. p.plan # "rejected"
      BY <1>4, <1>q, <2>2 DEF Honest, Before
    <2> HIDE DEF Written
    <2> QED BY <1>2, <1>4, <2>1, <2>2, <2>3, WritesHonestly
  <1> QED BY <1>3, <1>4 DEF Die

LEMMA EnvironmentIsHonest ==
    ASSUME HonestInv, Environment
    PROVE  AllHonest'
  <1>q. /\ req \in [Clients -> RequestType] /\ version \in Nat /\ AllHonest
        /\ Retry \in Told /\ Retry.id = 0
    BY Names DEF HonestInv, OrderInv, TypeOK, Retry
  <1>g. ASSUME stored \subseteq stored', Written' \subseteq Written, version' \in Nat,
               version <= version', req' = req \/ req' = Woken(req, Retry)
        PROVE  AllHonest'
    <2>0. PICK v \in Nat : v = version'
      BY <1>g
    <2>1. PICK more, now : more = stored' /\ now = Written'
      OBVIOUS
    <2>2. ASSUME NEW d \in Clients PROVE Honest(req[d], more, now, v)
      <3>1. req[d] \in RequestType /\ Honest(req[d], stored, Written, version)
        BY <1>q DEF AllHonest
      <3>2. \A s \in now : s \in Written
        BY <1>g, <2>1
      <3> HIDE DEF Written
      <3>3. stored \subseteq more /\ version <= v
        BY <1>g, <2>0, <2>1
      <3> QED BY <1>q, <3>1, <3>2, <3>3, HonestStays
    <2>3. ASSUME NEW d \in Clients PROVE Honest(req'[d], more, now, v)
      <3>1. Honest(Woken(req, Retry)[d], more, now, v)
        BY <1>q, <2>2, WokenHonest
      <3> QED BY <1>g, <2>2, <3>1
    <2> QED BY <2>0, <2>1, <2>3 DEF AllHonest
  <1>1. CASE \/ TimerFires \/ (\E t \in {"current", "stale"} : RunExpiry(t))
             \/ PruneOwner \/ PruneBody \/ Tick
    <2>1. UNCHANGED <<stored, late, version>> /\ (req' = req \/ req' = Woken(req, Retry))
      BY <1>1 DEF TimerFires, RunExpiry, PruneOwner, PruneBody, Tick, d1Vars, history
    <2> QED BY <1>g, <1>q, <2>1 DEF Written
  <1>2. CASE UpstreamChanges
    <2>1. UNCHANGED <<stored, late, req>> /\ version' = version + 1
      BY <1>2 DEF UpstreamChanges, d1Vars, history
    <2> QED BY <1>g, <1>q, <2>1 DEF Written
  <1>3. ASSUME NEW w \in late, LateWrite(w) PROVE AllHonest'
    <2>1. w = [id |-> w.id, seen |-> w.seen]
      BY DEF HonestInv, OrderInv, TypeOK, Bodies
    <2>2. stored \subseteq stored' /\ Written' \subseteq Written /\ UNCHANGED <<req, version>>
      BY <1>3, <2>1 DEF LateWrite, Store, Written
    <2> QED BY <1>g, <1>q, <2>2
  <1>4. CASE Restart
    <2>1. UNCHANGED <<stored, late, version>>
      BY <1>4 DEF Restart, d1Vars, history
    <2>2. ASSUME NEW d \in Clients PROVE Honest(req'[d], stored, Written, version)
      <3>1. PICK q \in RequestType : q = req[d] /\ Honest(q, stored, Written, version)
        BY <1>q DEF AllHonest
      <3>2. CASE q.stage \in {"reading", "waiting"}
        <4>1. PICK p : p = req'[d] /\ p = Thrown(q)
          BY <1>4, <3>1, <3>2 DEF Restart
        <4>0. PICK s \in {"acquiring", "done"}, b \in BOOLEAN : p = [q EXCEPT !.stage = s, !.retried = b]
          BY <4>1 DEF Thrown
        <4>2. /\ p \in RequestType /\ p.cap = q.cap /\ p.seen = q.seen /\ p.claim = q.claim
              /\ p.told = q.told /\ p.mode = q.mode /\ p.asked = q.asked /\ p.got = q.got
              /\ p.plan = q.plan /\ p.stage \in {"acquiring", "done"}
          BY <3>1, <4>0, Names DEF RequestType
        <4>3. Honest(p, stored, Written, version)
          BY <1>q, <3>1, <3>2, <4>2, GoesOnHonestly DEF Before, Early, Over
        <4> QED BY <4>1, <4>3
      <3>3. CASE q.stage \notin {"reading", "waiting"}
        <4>1. req'[d] = q
          BY <1>4, <3>1, <3>3 DEF Restart
        <4> QED BY <3>1, <4>1
      <3> QED BY <3>2, <3>3
    <2>3. Written' = Written
      BY <2>1 DEF Written
    <2> QED BY <2>1, <2>2, <2>3 DEF AllHonest
  <1> QED BY <1>1, <1>2, <1>3, <1>4 DEF Environment

LEMMA HonestInitial == Init => AllHonest
  <1> SUFFICES ASSUME Init PROVE AllHonest
    OBVIOUS
  <1>1. /\ \A c \in Clients : req[c] = NewRequest
        /\ Written = {} /\ version = 1
    BY DEF Init, Written
  <1>2. /\ NewRequest.stage = "idle" /\ NewRequest.plan = "none" /\ NewRequest.claim = 0
        /\ NewRequest.told.id = 0 /\ NewRequest.got = 0 /\ NewRequest.mode = "read"
    BY DEF NewRequest, Retry
  <1> HIDE DEF NewRequest
  <1>3. Honest(NewRequest, stored, Written, version)
    BY <1>1, <1>2 DEF Honest, Unwritten
  <1> QED BY <1>1, <1>3 DEF AllHonest

LEMMA HonestStep == HonestInv /\ [Next]_vars => HonestInv'
  <1> SUFFICES ASSUME HonestInv, [Next]_vars PROVE HonestInv'
    OBVIOUS
  <1>1. OrderInv'
    BY OrderStep DEF HonestInv
  <1>2. ASSUME NEW c \in Clients, Request(c) PROVE AllHonest'
    BY <1>2, AcquireIsHonest, OwnIsHonest, PublishIsHonest, FinishIsHonest, DieIsHonest
    DEF Request
  <1>3. ASSUME UNCHANGED vars PROVE AllHonest'
    <2>1. req' = req /\ stored' = stored /\ Written' = Written /\ version' = version
      BY <1>3 DEF vars, d1Vars, history, Written
    <2> QED BY <2>1 DEF HonestInv, AllHonest
  <1>5. ASSUME Environment PROVE AllHonest'
    BY <1>5, EnvironmentIsHonest
  <1>4. AllHonest'
    <2>1. \/ \E c \in Clients : Request(c)
          \/ Environment
          \/ UNCHANGED vars
      BY DEF Next, Drained
    <2> QED BY <1>2, <1>3, <1>5, <2>1
  <1> QED BY <1>1, <1>4 DEF HonestInv

LEMMA HonestInvariant == Spec => []HonestInv
  <1>1. Init => HonestInv
    BY OrderInitial, HonestInitial DEF HonestInv
  <1> QED BY <1>1, HonestStep, PTL DEF Spec

\* What completePublication passes on and publish() returns is true, whatever
\* call was lost: a claimed publication was stored, nothing was or will be
\* stored under an id whose publication was reported rejected, and followers
\* are sent to a publication there was.
THEOREM OutcomesAreHonest == Spec => []OutcomesHonest
  <1>1. HonestInv => OutcomesHonest
    <2> SUFFICES ASSUME HonestInv, NEW c \in Clients
        PROVE  /\ req[c].claim # 0 => [id |-> req[c].cap, seen |-> req[c].seen] \in stored
               /\ req[c].plan = "rejected" => \A s \in stored \cup late : s.id # req[c].cap
               /\ req[c].told.id # 0 => \E s \in stored : s.id = req[c].told.id
      BY Zenon DEF OutcomesHonest
    <2> QED BY OneHonest DEF Honest, Kept, Unwritten, Announced, Written
  <1> QED BY <1>1, HonestInvariant, PTL

\* A live read (max-age 0) is answered by its own fetch or not at all, however
\* many owners it waited for before it became one.
THEOREM LiveReadsAreNeverOld == Spec => []LiveReadsAreLive
  <1>1. HonestInv => LiveReadsAreLive
    <2> SUFFICES ASSUME HonestInv, NEW c \in Clients, req[c].mode = "live", req[c].got # 0
        PROVE  req[c].got >= req[c].asked
      BY DEF LiveReadsAreLive
    <2> QED BY OneHonest DEF Honest, RequestType
  <1> QED BY <1>1, HonestInvariant, PTL

--------------------------------------------------------------------------------
(* When followers are woken.  A queued callback of the group's own timer    *)
(* means that the timer has run out, and a grant has a higher id than the   *)
(* owner any group waits for.                                               *)

TimerInv ==
    /\ "current" \in due => group.id # 0 /\ group.left = 0
    /\ group.id <= next

WaitersInv == OrderInv /\ TimerInv

\* The guard of the action property: the group's owner keeps its row, the
\* timer runs, and nothing has failed.
Undisturbed == group.id # 0 /\ group.left > 0 /\ group.id = row'.id /\ faults' = faults

WakesRight == TimerInv' /\ (Undisturbed => group'.id = group.id)

LEMMA GroupTyped ==
    ASSUME WaitersInv
    PROVE  /\ group \in [id : Nat, left : Nat] /\ row \in [id : Nat, left : Nat]
           /\ next \in Nat /\ row.id <= next /\ faults \in Nat
  BY DEF WaitersInv, OrderInv, TypeOK, Issued

\* A group is left as it is, and no grant is taken back.
LEMMA LeftAlone ==
    ASSUME WaitersInv, UNCHANGED <<group, due>>, next' \in Nat, next <= next'
    PROVE  WakesRight
  BY GroupTyped DEF WakesRight, TimerInv, WaitersInv

\* A group is dissolved, or one for a new owner replaces it: no callback is the
\* new one's.
LEMMA Replaced ==
    ASSUME WaitersInv, due' = Cleared, group'.id \in Nat, group'.id <= next', ~Undisturbed
    PROVE  WakesRight
  BY DEF WakesRight, TimerInv, Cleared

LEMMA RequestWakesRight ==
    ASSUME WaitersInv, NEW c \in Clients, Request(c)
    PROVE  WakesRight
  <1>1. CASE /\ UNCHANGED <<group, due>>
             /\ next' = next \/ \E gap \in IdGaps : next' = next + 1 + gap
    <2>1. next' \in Nat /\ next <= next'
      BY <1>1, GroupTyped, IdGapsAssumption
    <2> QED BY <1>1, <2>1, LeftAlone
  <1>2. CASE Grant(c)
    <2>1. /\ next' \in Nat /\ next < next' /\ row'.id = next' /\ group' = NoGroup
          /\ due' = Cleared
      BY <1>2, GroupTyped, IdGapsAssumption DEF Grant, TakeRow, Wake
    <2>2. ~Undisturbed
      BY <2>1, GroupTyped DEF Undisturbed, WaitersInv, TimerInv
    <2> QED BY <2>1, <2>2, Replaced DEF NoGroup
  <1>3. CASE Join(c)
    <2>1. CASE group.id = row.id
      BY <1>1, <1>3, <2>1 DEF Join, d1Vars
    <2>2. CASE group.id # row.id
      <3>1. /\ group' = [id |-> row.id, left |-> Lease] /\ due' = Cleared
            /\ row' = row /\ next' = next
        BY <1>3, <2>2 DEF Join, d1Vars
      <3> QED BY <2>2, <3>1, GroupTyped, Replaced DEF Undisturbed
    <2> QED BY <2>1, <2>2
  <1>4. CASE ServeRenewal(c)
    <2>1. CASE group.id = req[c].cap
      <3>1. group' = [group EXCEPT !.left = Lease] /\ due' = Cleared /\ next' = next
        BY <1>4, <2>1 DEF ServeRenewal
      <3> QED BY <3>1, GroupTyped DEF WakesRight, TimerInv, Cleared, WaitersInv
    <2>2. CASE group.id # req[c].cap
      BY <1>1, <1>4, <2>2 DEF ServeRenewal
    <2> QED BY <2>1, <2>2
  <1>5. CASE ServeCompletion(c)
    <2>1. CASE group.id = req[c].cap
      <3>1. group' = NoGroup /\ due' = Cleared /\ row' = NoRow /\ next' = next
        BY <1>5, <2>1 DEF ServeCompletion, RemoveRow, Wake
      <3> QED BY <3>1, GroupTyped, Replaced DEF Undisturbed, NoGroup, NoRow
    <2>2. CASE group.id # req[c].cap
      BY <1>1, <1>5, <2>2 DEF ServeCompletion
    <2> QED BY <2>1, <2>2
  <1>6. CASE Busy(c) \/ OwnerGone(c) \/ AcquireFails(c) \/ ReadOwnerFails(c)
    BY <1>1, <1>6 DEF Busy, OwnerGone, AcquireFails, ReadOwnerFails, TakeRow, d1Vars, poolVars
  <1>7. CASE \/ \E m \in Modes : Start(c, m)
             \/ Follow(c) \/ Recheck(c) \/ Fetch(c) \/ GiveUp(c) \/ SendRenewal(c)
             \/ RefuseRenewal(c) \/ RenewalFails(c)
    BY <1>1, <1>7 DEF Start, Follow, Recheck, Fetch, GiveUp, SendRenewal, RefuseRenewal,
                      RenewalFails, d1Vars, poolVars
  <1>8. CASE PublishBody(c)
    BY <1>1, <1>8 DEF PublishBody, Publish, Write, WriteFails, ReadReceipt,
                      ReadReceiptFails, AuthorizeEdge, AuthorizeEdgeFails, SkipWrite,
                      WriteEdge, d1Vars, poolVars
  <1>9. CASE Complete(c) \/ RefuseCompletion(c) \/ CompletionFails(c) \/ Die(c)
    BY <1>1, <1>9 DEF Complete, RefuseCompletion, CompletionFails, Die, d1Vars, poolVars
  <1> QED
    BY <1>2, <1>3, <1>4, <1>5, <1>6, <1>7, <1>8, <1>9 DEF Request, Acquire, Own, Finish

LEMMA EnvironmentWakesRight ==
    ASSUME WaitersInv, Environment
    PROVE  WakesRight
  <1>1. CASE TimerFires
    <2>1. /\ group' = group /\ next' = next /\ group.id # 0 /\ group.left = 0
      BY <1>1 DEF TimerFires, d1Vars
    <2> QED BY <2>1, GroupTyped DEF WakesRight, WaitersInv, TimerInv
  <1>2. ASSUME NEW t \in {"current", "stale"}, RunExpiry(t) PROVE WakesRight
    <2>1. due' = due \ {t} /\ t \in due /\ next' = next
      BY <1>2 DEF RunExpiry, d1Vars
    <2>2. CASE t = "current"
      <3>1. group' = NoGroup /\ group.left = 0 /\ "current" \notin due'
        BY <1>2, <2>1, <2>2 DEF RunExpiry, WaitersInv, TimerInv
      <3> QED BY <2>1, <3>1, GroupTyped DEF WakesRight, TimerInv, NoGroup, Undisturbed
    <2>3. CASE t = "stale"
      <3>1. group' = group
        BY <1>2, <2>3 DEF RunExpiry
      <3> QED BY <2>1, <2>3, <3>1 DEF WakesRight, WaitersInv, TimerInv
    <2> QED BY <2>2, <2>3
  <1>3. CASE Restart
    <2>1. group' = NoGroup /\ due' = {} /\ next' = next /\ faults' = faults + 1
      BY <1>3 DEF Restart, Fault, d1Vars
    <2> QED BY <2>1, GroupTyped DEF WakesRight, TimerInv, NoGroup, Undisturbed
  <1>4. CASE (\E w \in late : LateWrite(w)) \/ PruneOwner \/ PruneBody \/ UpstreamChanges
    <2>1. UNCHANGED <<group, due, next>>
      BY <1>4 DEF LateWrite, PruneOwner, PruneBody, UpstreamChanges, d1Vars, poolVars
    <2> QED BY <2>1, GroupTyped, LeftAlone
  <1>5. CASE Tick
    <2>1. /\ group' = [group EXCEPT !.left = CountDown(@)] /\ due' = due /\ next' = next
      BY <1>5 DEF Tick
    <2> QED BY <2>1, GroupTyped DEF WakesRight, WaitersInv, TimerInv, CountDown
  <1> QED BY <1>1, <1>2, <1>3, <1>4, <1>5 DEF Environment

LEMMA StepWakesRight == WaitersInv /\ [Next]_vars => WakesRight
  <1> SUFFICES ASSUME WaitersInv, [Next]_vars PROVE WakesRight
    OBVIOUS
  <1>1. CASE UNCHANGED vars
    <2>1. UNCHANGED <<group, due, next>>
      BY <1>1 DEF vars, d1Vars, poolVars
    <2> QED BY <2>1, GroupTyped, LeftAlone
  <1> QED BY <1>1, RequestWakesRight, EnvironmentWakesRight DEF Next, Drained

\* While an owner keeps its row, and short of a failure, its followers are left
\* alone until the timer they have now runs out: neither a callback queued
\* before a renewal nor the traffic of other owners wakes them.
THEOREM FollowersAreLeftAlone == Spec => NoSpuriousWake
  <1>1. Init => WaitersInv
    <2>1. Init => TimerInv
      BY DEF Init, TimerInv, NoGroup
    <2> QED BY <2>1, OrderInitial DEF WaitersInv
  <1>2. WaitersInv /\ [Next]_vars => WaitersInv'
    BY OrderStep, StepWakesRight DEF WaitersInv, WakesRight
  <1>3. WaitersInv /\ [Next]_vars =>
          [group.id # 0 /\ group.left > 0 /\ group.id = row'.id /\ faults' = faults
             => group'.id = group.id]_vars
    BY StepWakesRight DEF WakesRight, Undisturbed
  <1> QED BY <1>1, <1>2, <1>3, PTL DEF Spec, NoSpuriousWake

================================================================================
