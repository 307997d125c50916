-------------------------------- MODULE Hub --------------------------------
(* Event streams of signed-in users and of anonymous boards                   *)
(* (internal/httpapi hub.go, streamslots.go, sse_bridge.go and the handlers   *)
(* handleBoardEvents and handleMeRealtime of sse.go).                         *)
(*                                                                            *)
(* A board stream subscribes to one project and writes what its channel       *)
(* holds.  A merged stream subscribes to its user and to every project of the *)
(* user, one forwarding goroutine per subscription, and writes what they put  *)
(* into a common channel.  Emit takes a snapshot of the subscribers under the *)
(* read lock and sends after releasing it.                                    *)
EXTENDS Naturals, FiniteSets, Sequences, SequencesExt

CONSTANTS
  Topics,        \* projects and users
  Conns,         \* connections
  topicsOf,      \* the subscriptions each makes, in order
  Merged,        \* the connections served by handleMeRealtime
  Anonymous,     \* the connections to expiring projects, which need a slot
  IPs, ipOf,     \* where connections come from
  Events,        \* domain events
  emitsOf,       \* the topics OnEvent emits each of them to, in order
  Buffer,        \* channelBuffer
  MergedBuffer,  \* capacity of the merged channel
  Global, PerIP, PerProject   \* newStreamSlots

ASSUME HubAssumption ==
  /\ IsFiniteSet(Conns)
  /\ topicsOf \in [Conns -> Seq(Topics) \ {<<>>}]
  /\ Merged \subseteq Conns /\ Anonymous \subseteq Conns \ Merged
  /\ \A c \in Conns \ Merged : Len(topicsOf[c]) = 1
  /\ \A c \in Conns : IsInjective(topicsOf[c])
  /\ ipOf \in [Conns -> IPs]
  /\ emitsOf \in [Events -> Seq(Topics)]
  /\ {Buffer, MergedBuffer, Global, PerIP, PerProject} \subseteq Nat \ {0}

VARIABLES
  registry,   \* byProjectID and byUserID: the subscribed connections
  closed,     \* subscriptions <<connection, topic>> whose channel is closed
  channel,    \* the channel of each subscription
  hand,       \* what its forwarding goroutine has received and not yet passed on
  merged,     \* the merged channel of each connection
  wire,       \* what has been written to each connection
  conn,       \* where the handler of each connection is
  slots,      \* streamSlots
  accepted,   \* history: what the channel of each subscription has taken, in order
  emission    \* the Emit calls of each event: sent, the snapshots, what is left

vars == <<registry, closed, channel, hand, merged, wire, conn, slots, accepted, emission>>

Subs == {<<c, t>> \in Conns \X Topics : t \in ToSet(topicsOf[c])}

Init ==
  /\ registry = [t \in Topics |-> {}]
  /\ closed = {}
  /\ channel = [s \in Subs |-> <<>>]
  /\ hand = [s \in Subs |-> <<>>]
  /\ merged = [c \in Conns |-> <<>>]
  /\ wire = [c \in Conns |-> <<>>]
  /\ conn = [c \in Conns |-> [pc |-> "new", subscribed |-> 0, unsubscribed |-> 0]]
  /\ slots = [active |-> 0, byIP |-> [i \in IPs |-> 0], byProject |-> [t \in Topics |-> 0]]
  /\ accepted = [s \in Subs |-> <<>>]
  /\ emission = [e \in Events |-> [panicked |-> FALSE, snapshots |-> <<>>,
                                   left |-> {}, evicting |-> {}]]

-----------------------------------------------------------------------------
(* Hub.                                                                       *)

(* remove and removeUser up to the unlock; the channel is closed, once, after *)
(* it (CloseEvicted, CloseUnsubscribed).                                      *)
remove(c, t) == registry' = [registry EXCEPT ![t] = @ \ {c}]

(* Emit and EmitUser up to the unlock, for the next topic of the event.       *)
Snapshot(e) ==
  LET i == Len(emission[e].snapshots) + 1
  IN  /\ ~emission[e].panicked
      /\ emission[e].left = {}
      /\ i <= Len(emitsOf[e])
      /\ emission' = [emission EXCEPT
           ![e].snapshots = Append(@, registry[emitsOf[e][i]]),
           ![e].left = registry[emitsOf[e][i]]]
      /\ UNCHANGED <<registry, closed, channel, hand, merged, wire, conn, slots, accepted>>

MutSkip(e, s) ==
  /\ emission' = [emission EXCEPT ![e].left = @ \ {s[1]}]
  /\ UNCHANGED <<registry, channel, accepted>>

(* The default case: the subscriber is removed.                               *)
evict(e, s) ==
  /\ remove(s[1], s[2])
  /\ emission' = [emission EXCEPT ![e].evicting = {s[1]}]
  /\ UNCHANGED <<channel, accepted>>

enqueue(e, s, m) ==
  /\ channel' = [channel EXCEPT ![s] = Append(@, m)]
  /\ accepted' = [accepted EXCEPT ![s] = Append(@, m)]
  /\ emission' = [emission EXCEPT ![e].left = @ \ {s[1]}]
  /\ UNCHANGED registry

(* One turn of the loop over the snapshot: a send on a closed channel panics, *)
(* a full channel has its subscriber removed.                                 *)
Send(e, c) ==
  LET i == Len(emission[e].snapshots)
      s == <<c, emitsOf[e][i]>>
  IN  /\ ~emission[e].panicked /\ emission[e].evicting = {}
      /\ c \in emission[e].left
      /\ IF s \in closed
         THEN /\ emission' = [emission EXCEPT ![e].panicked = TRUE]
              /\ UNCHANGED <<registry, channel, accepted>>
         ELSE IF Len(channel[s]) = Buffer THEN evict(e, s) ELSE enqueue(e, s, <<e, i>>)
      /\ UNCHANGED <<closed, hand, merged, wire, conn, slots>>

CloseEvicted(e, c) ==
  /\ c \in emission[e].evicting
  /\ closed' = closed \cup {<<c, emitsOf[e][Len(emission[e].snapshots)]>>}
  /\ emission' = [emission EXCEPT ![e].left = @ \ {c}, ![e].evicting = {}]
  /\ UNCHANGED <<registry, channel, hand, merged, wire, conn, slots, accepted>>

-----------------------------------------------------------------------------
(* streamSlots.                                                               *)

free(c) ==
  /\ slots.active < Global
  /\ slots.byIP[ipOf[c]] < PerIP
  /\ slots.byProject[topicsOf[c][1]] < PerProject

changeSlots(c, n) ==
  slots' = [slots EXCEPT !.active = @ + n, !.byIP[ipOf[c]] = @ + n,
                         !.byProject[topicsOf[c][1]] = @ + n]

(* acquire, before the response of a board stream of an expiring project.     *)
Acquire(c) ==
  /\ c \in Anonymous
  /\ conn[c].pc = "new"
  /\ IF free(c)
     THEN changeSlots(c, 1) /\ conn' = [conn EXCEPT ![c].pc = "accepted"]
     ELSE conn' = [conn EXCEPT ![c].pc = "ended"] /\ UNCHANGED slots
  /\ UNCHANGED <<registry, closed, channel, hand, merged, wire, accepted, emission>>

-----------------------------------------------------------------------------
(* The handlers.                                                              *)

Open(c) ==
  /\ c \notin Anonymous
  /\ conn[c].pc = "new"
  /\ conn' = [conn EXCEPT ![c].pc = "accepted"]
  /\ UNCHANGED <<registry, closed, channel, hand, merged, wire, slots, accepted, emission>>

(* Subscribe or SubscribeUser: the next subscription of the connection.       *)
Subscribe(c) ==
  LET n == conn[c].subscribed + 1
  IN  /\ conn[c].pc = "accepted"
      /\ registry' = [registry EXCEPT ![topicsOf[c][n]] = @ \cup {c}]
      /\ conn' = [conn EXCEPT ![c].pc = IF n = Len(topicsOf[c]) THEN "open" ELSE @,
                             ![c].subscribed = n]
      /\ UNCHANGED <<closed, channel, hand, merged, wire, slots, accepted, emission>>

(* forward receives; what is buffered can be read after the close.  Once the  *)
(* handler has left its loop nobody reads the merged channel any more, so     *)
(* what a goroutine still moves then is left out ...                          *)
Take(s) ==
  /\ s[1] \in Merged
  /\ conn[s[1]].pc \in {"accepted", "open"}
  /\ hand[s] = <<>> /\ channel[s] # <<>>
  /\ hand' = [hand EXCEPT ![s] = <<Head(channel[s])>>]
  /\ channel' = [channel EXCEPT ![s] = Tail(@)]
  /\ UNCHANGED <<registry, closed, merged, wire, conn, slots, accepted, emission>>

MutDropIfBusy(s) ==
  /\ conn[s[1]].pc \in {"accepted", "open"}
  /\ hand[s] # <<>>
  /\ merged' = IF Len(merged[s[1]]) < MergedBuffer
               THEN [merged EXCEPT ![s[1]] = @ \o hand[s]] ELSE merged
  /\ hand' = [hand EXCEPT ![s] = <<>>]
  /\ UNCHANGED <<registry, closed, channel, wire, conn, slots, accepted, emission>>

(* ... and passes on when the merged channel has room.                        *)
Put(s) ==
  /\ conn[s[1]].pc \in {"accepted", "open"}
  /\ hand[s] # <<>> /\ Len(merged[s[1]]) < MergedBuffer
  /\ merged' = [merged EXCEPT ![s[1]] = @ \o hand[s]]
  /\ hand' = [hand EXCEPT ![s] = <<>>]
  /\ UNCHANGED <<registry, closed, channel, wire, conn, slots, accepted, emission>>

(* The loop of handleMeRealtime.                                              *)
WriteMerged(c) ==
  /\ conn[c].pc = "open" /\ merged[c] # <<>>
  /\ wire' = [wire EXCEPT ![c] = Append(@, Head(merged[c]))]
  /\ merged' = [merged EXCEPT ![c] = Tail(@)]
  /\ UNCHANGED <<registry, closed, channel, hand, conn, slots, accepted, emission>>

(* The loop of handleBoardEvents: the next message is written, or the closed  *)
(* channel ends the stream.                                                   *)
WriteBoard(c) ==
  LET s == <<c, topicsOf[c][1]>>
  IN  /\ c \notin Merged /\ conn[c].pc = "open"
      /\ IF channel[s] # <<>>
         THEN /\ wire' = [wire EXCEPT ![c] = Append(@, Head(channel[s]))]
              /\ channel' = [channel EXCEPT ![s] = Tail(@)]
              /\ UNCHANGED conn
         ELSE /\ s \in closed
              /\ conn' = [conn EXCEPT ![c].pc = "closing"]
              /\ UNCHANGED <<wire, channel>>
      /\ UNCHANGED <<registry, closed, hand, merged, slots, accepted, emission>>

(* The client goes away or a write fails, with or without a message in hand.  *)
Disconnect(c) ==
  /\ conn[c].pc = "open"
  /\ conn' = [conn EXCEPT ![c].pc = "closing"]
  /\ UNCHANGED <<registry, closed, channel, hand, merged, wire, slots, accepted, emission>>

(* The deferred cleanup, one unsubscription after the other ...               *)
Unsubscribe(c) ==
  /\ conn[c].pc = "closing" /\ conn[c].unsubscribed < conn[c].subscribed
  /\ remove(c, topicsOf[c][conn[c].unsubscribed + 1])
  /\ conn' = [conn EXCEPT ![c].pc = "removed", ![c].unsubscribed = @ + 1]
  /\ UNCHANGED <<closed, channel, hand, merged, wire, slots, accepted, emission>>

CloseUnsubscribed(c) ==
  /\ conn[c].pc = "removed"
  /\ closed' = closed \cup {<<c, topicsOf[c][conn[c].unsubscribed]>>}
  /\ conn' = [conn EXCEPT ![c].pc = "closing"]
  /\ UNCHANGED <<registry, channel, hand, merged, wire, slots, accepted, emission>>

MutSlotKept(c) ==
  /\ conn[c].pc = "closing" /\ conn[c].unsubscribed = conn[c].subscribed
  /\ conn' = [conn EXCEPT ![c].pc = "ended"]
  /\ UNCHANGED <<registry, closed, channel, hand, merged, wire, slots, accepted, emission>>

(* ... and the slot last.                                                     *)
Release(c) ==
  /\ conn[c].pc = "closing" /\ conn[c].unsubscribed = conn[c].subscribed
  /\ IF c \in Anonymous THEN changeSlots(c, -1) ELSE UNCHANGED slots
  /\ conn' = [conn EXCEPT ![c].pc = "ended"]
  /\ UNCHANGED <<registry, closed, channel, hand, merged, wire, accepted, emission>>

-----------------------------------------------------------------------------
Next ==
  \/ \E e \in Events : Snapshot(e) \/ \E c \in Conns : Send(e, c) \/ CloseEvicted(e, c)
  \/ \E c \in Conns : \/ Acquire(c) \/ Open(c) \/ Subscribe(c) \/ WriteMerged(c)
                      \/ WriteBoard(c) \/ Disconnect(c) \/ Unsubscribe(c)
                      \/ CloseUnsubscribed(c) \/ Release(c)
  \/ \E s \in Subs : Take(s) \/ Put(s)

Spec == Init /\ [][Next]_vars

-----------------------------------------------------------------------------
(* Properties.                                                                *)

(* The variables have their types and no channel exceeds its capacity.        *)
TypeOK ==
  /\ registry \in [Topics -> SUBSET Conns]
  /\ closed \subseteq Subs
  /\ \A s \in Subs : Len(channel[s]) <= Buffer /\ Len(hand[s]) <= 1
  /\ \A c \in Conns : Len(merged[c]) <= MergedBuffer
  /\ \A c \in Conns : conn[c].pc \in {"new", "accepted", "open", "closing", "removed", "ended"}
  /\ slots.active \in 0..Global

(* Whatever way a subscription goes, by eviction or by the cleanup of its     *)
(* handler, the registry holds exactly the subscriptions of running handlers  *)
(* that are neither closed nor about to be, and the slots are those of the    *)
(* anonymous streams between acquire and release (remove, cleanup, release).  *)
evicted(c, t) ==
  \E e \in Events :
    c \in emission[e].evicting /\ emitsOf[e][Len(emission[e].snapshots)] = t

NothingLeaks ==
  LET holding == {c \in Anonymous : conn[c].pc \notin {"new", "ended"}}
  IN  /\ \A c \in Conns, t \in Topics :
           c \in registry[t] <=>
             /\ t \in {topicsOf[c][n] : n \in conn[c].unsubscribed + 1 .. conn[c].subscribed}
             /\ <<c, t>> \notin closed /\ ~evicted(c, t)
      /\ slots.active = Cardinality(holding)
      /\ \A i \in IPs : slots.byIP[i] = Cardinality({c \in holding : ipOf[c] = i})
      /\ \A t \in Topics :
           slots.byProject[t] = Cardinality({c \in holding : topicsOf[c][1] = t})

(* Channels and slots stay within their limits and nothing is left behind by  *)
(* eviction or cleanup.                                                       *)
HubInv == TypeOK /\ NothingLeaks

(* The messages whose snapshots hold subscription s and which its channel has *)
(* not taken; Emit may still get to it, or has dealt with it, or panicked.    *)
notTaken(s) ==
  UNION {{<<e, i>> : i \in {j \in DOMAIN emission[e].snapshots :
                              emitsOf[e][j] = s[2] /\ s[1] \in emission[e].snapshots[j]}} :
           e \in Events} \ ToSet(accepted[s])

ahead(m, s) == m[2] = Len(emission[m[1]].snapshots) /\ s[1] \in emission[m[1]].left

passedOver(s) == \E m \in notTaken(s) : ~ahead(m, s)

behindPanic(s) == \E m \in notTaken(s) : ahead(m, s) /\ emission[m[1]].panicked

(* "Deterministic backpressure policy: slow subscribers are disconnected"     *)
(* (Emit, EmitUser): a subscription that was passed over is closed by then    *)
(* and its channel takes nothing any more, whichever Emit calls and cleanups  *)
(* run at the same time.  This is about the subscriptions Emit gets to: those *)
(* behind a send that panics miss the message and go on, and a merged stream  *)
(* goes on with its other subscriptions (NobodyGoesOnWithAGap).               *)
GapsAreFinal ==
  [][ \A s \in Subs : passedOver(s) => s \in closed /\ accepted'[s] = accepted[s] ]_vars

(* A client who missed a message is sent nothing more, on any subscription.   *)
(* The code does not satisfy this: a panic leaves the rest of the snapshot    *)
(* without the message, and handleMeRealtime goes on when one of its          *)
(* subscriptions is closed.                                                   *)
NobodyGoesOnWithAGap ==
  [][ \A s, r \in Subs :
        (passedOver(s) \/ behindPanic(s)) /\ r[1] = s[1] => accepted'[r] = accepted[r] ]_vars

(* While a stream is served nothing is lost, doubled or overtaken between the *)
(* hub and the client: what was written on one topic, followed by what waits  *)
(* in the merged channel, in the hand of forward and in the subscription's    *)
(* channel, is what that channel took, in the same order, also after an       *)
(* eviction (forward, handleMeRealtime, handleBoardEvents).                   *)
DeliveredInOrder ==
  \A s \in {x \in Subs : conn[x[1]].pc \in {"accepted", "open"}} :
    LET onTopic(m) == emitsOf[m[1]][m[2]] = s[2]
    IN  SelectSeq(wire[s[1]] \o merged[s[1]], onTopic) \o hand[s] \o channel[s] = accepted[s]

(* "Best-effort: callers should not fail HTTP requests on publish errors"     *)
(* (PublishEvent): publishing never panics.  The code does not satisfy this:  *)
(* a stream that leaves between the snapshot and the send closes its channel. *)
PublishingSucceeds == \A e \in Events : ~emission[e].panicked
=============================================================================
