--------------------------- MODULE PublicStreams ---------------------------
(* Read-only event streams of published boards: admission, revalidation and   *)
(* revocation (internal/httpapi public_hub.go and handlePublicBoardEvents in  *)
(* sse.go; application/publicboard; store/project_public_viewing.go).         *)
(*                                                                            *)
(* A visitor's stream registers with the hub, looks up once more whether the  *)
(* project is public, and is then admitted.  Unpublishing and deleting a      *)
(* project commit first and revoke the project's streams afterwards, as two   *)
(* steps.  Every operation of the hub runs under its mutex.                   *)
EXTENDS Naturals, FiniteSets, Sequences, SequencesExt

CONSTANTS
  Projects, IPs,
  Streams,      \* connections of visitors
  projectOf,    \* the project each of them asks for
  ipOf,         \* and the address it comes from
  Global, PerIP, PerProject, Buffer,   \* PublicHubLimits
  DeletedBy,    \* ways a project is deleted: "rest", "mcp"
  MaxChanges    \* bound on the committed changes of publication

ASSUME StreamsAssumption ==
  /\ IsFiniteSet(Streams)
  /\ projectOf \in [Streams -> Projects]
  /\ ipOf \in [Streams -> IPs]
  /\ {Global, PerIP, PerProject, Buffer} \subseteq Nat \ {0}
  /\ DeletedBy \subseteq {"rest", "mcp"}
  /\ MaxChanges \in Nat

VARIABLES
  project,    \* as committed: "public", "private", or deleted, by which service
  revoking,   \* committed losses of eligibility not yet told to the hub
  hub,        \* PublicHub: closed, activeN, byIP, byProject
  channel,    \* the buffered events of each registration
  stream,     \* where the handler of each connection is
  wire,       \* the last event written to it
  behind,     \* ghost: it has not been told of the latest change of the board
  changes     \* ghost: changes of publication so far

vars == <<project, revoking, hub, channel, stream, wire, behind, changes>>

Init ==
  /\ project = [p \in Projects |-> "public"]
  /\ revoking = [p \in Projects |-> 0]
  /\ hub = [closed |-> FALSE, activeN |-> 0, byIP |-> [i \in IPs |-> 0],
            byProject |-> [p \in Projects |-> {}]]
  /\ channel = [s \in Streams |-> <<>>]
  /\ stream = [s \in Streams |-> "new"]
  /\ wire = [s \in Streams |-> "nothing"]
  /\ behind = [s \in Streams |-> FALSE]
  /\ changes = 0

-----------------------------------------------------------------------------
(* PublicHub.                                                                 *)

active(h, s) == s \in h.byProject[projectOf[s]]

MutRemovedTwice(h, gone) ==
  [h EXCEPT !.activeN = IF @ >= Cardinality(gone) THEN @ - Cardinality(gone) ELSE 0,
            !.byIP = [i \in IPs |->
                        LET n == Cardinality({s \in gone : ipOf[s] = i})
                        IN  IF @[i] >= n THEN @[i] - n ELSE 0],
            !.byProject = [p \in Projects |-> @[p] \ gone]]

(* removeLocked on each of some subscribers: one that is no longer active is  *)
(* left alone.                                                                *)
removed(h, gone) ==
  LET leaving == {s \in gone : active(h, s)}
  IN  [h EXCEPT !.activeN = @ - Cardinality(leaving),
                !.byIP = [i \in IPs |->
                            @[i] - Cardinality({s \in leaving : ipOf[s] = i})],
                !.byProject = [p \in Projects |-> @[p] \ leaving]]

hasRoom(h, s) ==
  /\ h.activeN < Global
  /\ h.byIP[ipOf[s]] < PerIP
  /\ Cardinality(h.byProject[projectOf[s]]) < PerProject

registered(h, s) ==
  [h EXCEPT !.activeN = @ + 1, !.byIP[ipOf[s]] = @ + 1,
            !.byProject[projectOf[s]] = @ \cup {s}]

(* RefreshPublicProject, called when a mutation of a project that shows on    *)
(* its public board has been published.  A full buffer evicts its subscriber. *)
RefreshPublicProject(p) ==
  /\ LET subs == hub.byProject[p]
         slow == {s \in subs : Len(channel[s]) = Buffer}
     IN  /\ subs # {}
         /\ channel' = [s \in Streams |-> IF s \in subs \ slow
                                          THEN Append(channel[s], "refresh")
                                          ELSE channel[s]]
         /\ hub' = removed(hub, slow)
         /\ behind' = [s \in Streams |-> behind[s] \/ s \in subs]
  /\ UNCHANGED <<project, revoking, stream, wire, changes>>

(* RevokePublicProject, the step after the commit: queued invalidations are   *)
(* dropped, access_revoked is queued and the channel closed.                  *)
RevokePublicProject(p) ==
  /\ revoking[p] > 0
  /\ revoking' = [revoking EXCEPT ![p] = @ - 1]
  /\ channel' = [s \in Streams |-> IF s \in hub.byProject[p]
                                   THEN <<"revoked">> ELSE channel[s]]
  /\ hub' = removed(hub, hub.byProject[p])
  /\ UNCHANGED <<project, stream, wire, behind, changes>>

MutOnlyClosed ==
  /\ ~hub.closed
  /\ hub' = [hub EXCEPT !.closed = TRUE]
  /\ UNCHANGED <<project, revoking, channel, stream, wire, behind, changes>>

(* No stream is admitted any more, and the present ones are closed.           *)
Shutdown ==
  /\ ~hub.closed
  /\ hub' = [removed(hub, Streams) EXCEPT !.closed = TRUE]
  /\ UNCHANGED <<project, revoking, channel, stream, wire, behind, changes>>

-----------------------------------------------------------------------------
(* Publication and deletion.                                                  *)

(* UpdateProjectPublicViewing commits; SetPublication revokes afterwards when *)
(* the state changed to private.                                              *)
SetPublication(p, enabled) ==
  /\ changes < MaxChanges
  /\ project[p] = IF enabled THEN "private" ELSE "public"
  /\ project' = [project EXCEPT ![p] = IF enabled THEN "public" ELSE "private"]
  /\ revoking' = [revoking EXCEPT ![p] = IF enabled THEN @ ELSE @ + 1]
  /\ changes' = changes + 1
  /\ UNCHANGED <<hub, channel, stream, wire, behind>>

(* DeleteProject: the REST service publishes the deletion, and emitProject-   *)
(* Deleted revokes; the MCP service publishes nothing.                        *)
Deleted == {"deleted", "deletedByMCP"}

DeleteProject(p) ==
  /\ changes < MaxChanges
  /\ project[p] \notin Deleted
  /\ \/ /\ "rest" \in DeletedBy
        /\ project' = [project EXCEPT ![p] = "deleted"]
        /\ revoking' = [revoking EXCEPT ![p] = @ + 1]
     \/ /\ "mcp" \in DeletedBy
        /\ project' = [project EXCEPT ![p] = "deletedByMCP"]
        /\ UNCHANGED revoking
  /\ changes' = changes + 1
  /\ UNCHANGED <<hub, channel, stream, wire, behind>>

-----------------------------------------------------------------------------
(* handlePublicBoardEvents.                                                   *)

(* What Resolve and Revalidate look up.  A stream is bound to the project its *)
(* slug named: a slug is given to a project once and not handed on, so the    *)
(* comparison of the two in Revalidate fails only with the lookup itself.     *)
eligible(s) == project[projectOf[s]] = "public"

(* The handler returns, having written an event or nothing; its deferred      *)
(* Unsubscribe frees the registration.                                        *)
end(s, how, event) ==
  /\ stream' = [stream EXCEPT ![s] = how]
  /\ wire' = IF event = "nothing" THEN wire ELSE [wire EXCEPT ![s] = event]
  /\ hub' = removed(hub, {s})
  /\ channel' = [channel EXCEPT ![s] = <<>>]

go(s, pc) == stream' = [stream EXCEPT ![s] = pc] /\ UNCHANGED <<hub, channel, wire>>

(* The namespace resolves the slug before the handler is called.              *)
Resolve(s) ==
  /\ stream[s] = "new"
  /\ IF eligible(s) THEN go(s, "resolved") ELSE go(s, "ended")
  /\ UNCHANGED <<project, revoking, behind, changes>>

(* PublicHub.Subscribe.                                                       *)
Subscribe(s) ==
  /\ stream[s] = "resolved"
  /\ IF ~hub.closed /\ hasRoom(hub, s)
     THEN /\ hub' = registered(hub, s)
          /\ stream' = [stream EXCEPT ![s] = "registered"]
     ELSE /\ stream' = [stream EXCEPT ![s] = "ended"]
          /\ UNCHANGED hub
  /\ UNCHANGED <<project, revoking, channel, wire, behind, changes>>

MutNotRevalidated(s) ==
  /\ stream[s] = "registered"
  /\ go(s, "validated")
  /\ UNCHANGED <<project, revoking, behind, changes>>

(* prepared.Revalidate after the registration.                                *)
Revalidate(s) ==
  /\ stream[s] = "registered"
  /\ IF eligible(s) THEN go(s, "validated") ELSE end(s, "ended", "nothing")
  /\ UNCHANGED <<project, revoking, behind, changes>>

MutFreshChannel(s) ==
  /\ stream[s] = "validated"
  /\ IF active(hub, s)
     THEN /\ stream' = [stream EXCEPT ![s] = "open"]
          /\ channel' = [channel EXCEPT ![s] = <<>>]
          /\ UNCHANGED <<hub, wire>>
     ELSE end(s, "ended", "nothing")
  /\ UNCHANGED <<project, revoking, behind, changes>>

(* subscription.Active() and the 200.                                         *)
Admit(s) ==
  /\ stream[s] = "validated"
  /\ IF active(hub, s) THEN go(s, "open") ELSE end(s, "ended", "nothing")
  /\ UNCHANGED <<project, revoking, behind, changes>>

(* The revalidation ticker of an open stream.                                 *)
Tick(s) ==
  /\ stream[s] = "open"
  /\ ~eligible(s)
  /\ end(s, "ended", "revoked")
  /\ UNCHANGED <<project, revoking, behind, changes>>

MutClosedFirst(s) ==
  /\ stream[s] = "open"
  /\ channel[s] # <<>> \/ ~active(hub, s)
  /\ IF ~active(hub, s) THEN end(s, "ended", "nothing")
     ELSE /\ channel' = [channel EXCEPT ![s] = <<>>]
          /\ stream' = [stream EXCEPT ![s] = "refresh"]
          /\ UNCHANGED <<hub, wire>>
  /\ UNCHANGED <<project, revoking, behind, changes>>

(* An event is read: a closed channel or access_revoked ends the stream;      *)
(* refresh_needed collapses with the ones queued behind it.                   *)
Receive(s) ==
  /\ stream[s] = "open"
  /\ channel[s] # <<>> \/ ~active(hub, s)
  /\ IF "revoked" \in ToSet(channel[s]) THEN end(s, "ended", "revoked")
     ELSE IF ~active(hub, s) THEN end(s, "ended", "nothing")
     ELSE /\ channel' = [channel EXCEPT ![s] = <<>>]
          /\ stream' = [stream EXCEPT ![s] = "refresh"]
          /\ UNCHANGED <<hub, wire>>
  /\ UNCHANGED <<project, revoking, behind, changes>>

(* stillEligible before the refresh is written ...                            *)
CheckRefresh(s) ==
  /\ stream[s] = "refresh"
  /\ IF eligible(s) THEN go(s, "checked") ELSE end(s, "ended", "revoked")
  /\ UNCHANGED <<project, revoking, behind, changes>>

(* ... and the registration after it: an invalidation overtaken by a          *)
(* revocation is dropped ...                                                  *)
ConfirmActive(s) ==
  /\ stream[s] = "checked"
  /\ IF active(hub, s) THEN go(s, "writing") ELSE go(s, "open")
  /\ UNCHANGED <<project, revoking, behind, changes>>

(* ... and any other is written.                                              *)
WriteRefresh(s) ==
  /\ stream[s] = "writing"
  /\ stream' = [stream EXCEPT ![s] = "open"]
  /\ wire' = [wire EXCEPT ![s] = "refresh"]
  /\ behind' = [behind EXCEPT ![s] = FALSE]
  /\ UNCHANGED <<project, revoking, hub, channel, changes>>

(* The client goes away, a write fails, or a lookup fails for another reason  *)
(* than eligibility.                                                          *)
Disconnect(s) ==
  /\ stream[s] \notin {"new", "ended", "gone"}
  /\ end(s, "gone", "nothing")
  /\ UNCHANGED <<project, revoking, behind, changes>>

-----------------------------------------------------------------------------
handlerStep(s) ==
  \/ Resolve(s) \/ Subscribe(s) \/ Revalidate(s) \/ Admit(s) \/ Tick(s)
  \/ Receive(s) \/ CheckRefresh(s) \/ ConfirmActive(s) \/ WriteRefresh(s)

Next ==
  \/ \E p \in Projects : \/ RefreshPublicProject(p) \/ RevokePublicProject(p)
                         \/ SetPublication(p, TRUE) \/ SetPublication(p, FALSE)
                         \/ DeleteProject(p)
  \/ Shutdown
  \/ \E s \in Streams : \/ Resolve(s) \/ Subscribe(s) \/ Revalidate(s) \/ Admit(s)
                        \/ Tick(s) \/ Receive(s) \/ CheckRefresh(s) \/ ConfirmActive(s)
                        \/ WriteRefresh(s) \/ Disconnect(s)

Spec == Init /\ [][Next]_vars

(* A request that has committed goes on to revoke; the handler of a           *)
(* connection runs, and its ticker fires every publicStreamRevalidateInterval.*)
Fairness ==
  /\ \A p \in Projects : WF_vars(RevokePublicProject(p))
  /\ \A s \in Streams : WF_vars(handlerStep(s))

FairSpec == Spec /\ Fairness

-----------------------------------------------------------------------------
(* Properties.                                                                *)

Live == {"registered", "validated", "open", "refresh", "checked", "writing"}

(* The variables have their types, and a channel holds at most Buffer events. *)
TypeOK ==
  /\ project \in [Projects -> {"public", "private"} \cup Deleted]
  /\ revoking \in [Projects -> 0..MaxChanges]
  /\ hub.closed \in BOOLEAN
  /\ hub.activeN \in 0..Global
  /\ hub.byIP \in [IPs -> 0..PerIP]
  /\ hub.byProject \in [Projects -> SUBSET Streams]
  /\ channel \in [Streams -> SeqOf({"refresh", "revoked"}, Buffer)]
  /\ stream \in [Streams -> Live \cup {"new", "resolved", "ended", "gone"}]
  /\ wire \in [Streams -> {"nothing", "refresh", "revoked"}]
  /\ behind \in [Streams -> BOOLEAN]
  /\ changes \in 0..MaxChanges

(* The admission counters of the hub count exactly the registrations that are *)
(* still active, and every one of them belongs to a handler that has not      *)
(* returned, although eviction, revocation, shutdown and the deferred         *)
(* Unsubscribe may all reach the same registration (removeLocked).            *)
SlotsCounted ==
  LET registeredNow == UNION {hub.byProject[p] : p \in Projects}
  IN  /\ hub.activeN = Cardinality(registeredNow)
      /\ \A i \in IPs : hub.byIP[i] = Cardinality({s \in registeredNow : ipOf[s] = i})
      /\ \A s \in registeredNow : stream[s] \in Live

(* The limits of the hub hold and its counters are right, whoever removes a   *)
(* registration first.                                                        *)
StreamsInv == TypeOK /\ SlotsCounted

(* "A committed revoke either closed this registration or is already visible  *)
(* to this read, so no stream can be admitted against a pre-revocation        *)
(* eligibility decision" (handlePublicBoardEvents).  Every stream past its    *)
(* revalidation belongs to a public project or is about to be closed by a     *)
(* revocation.  The code does not satisfy this: deleting a project through    *)
(* MCP commits and revokes nothing, so a stream revalidated just before is    *)
(* admitted and stays until its ticker fires.                                 *)
staleAdmission(s) ==
  stream[s] \in Live \ {"registered"} /\ active(hub, s) /\ ~eligible(s)

NoStaleAdmission ==
  \A s \in Streams : staleAdmission(s) => revoking[projectOf[s]] > 0

(* What the code does keep of it: a stream past its revalidation whose        *)
(* project is not public any more is about to be closed by a revocation,      *)
(* unless the project was deleted through MCP.  Unpublishing and deleting     *)
(* through REST commit before they revoke, and streams register before they   *)
(* revalidate, so whichever of the two is second meets the other.             *)
RevocationOnItsWay ==
  \A s \in Streams :
    staleAdmission(s) =>
      revoking[projectOf[s]] > 0 \/ project[projectOf[s]] = "deletedByMCP"

(* A change of the board reaches every visitor whose stream was registered    *)
(* when it was published, unless the stream ends: neither collapsing queued   *)
(* refreshes nor dropping an overtaken one loses it (drainQueuedPublic-       *)
(* Refreshes, the Active() check before the write).                           *)
ChangesArrive ==
  \A s \in Streams :
    stream[s] \in Live /\ behind[s] ~> ~behind[s] \/ stream[s] \in {"ended", "gone"}

(* A stream whose access was revoked ends with access_revoked, unless its     *)
(* connection goes away first (RevokePublicProject, handlePublicBoardEvents). *)
RevokedAreTold ==
  \A s \in Streams :
    stream[s] = "open" /\ channel[s] = <<"revoked">> ~>
      (stream[s] = "ended" /\ wire[s] = "revoked") \/ stream[s] = "gone"

(* Streams of a deleted project, and all streams of a hub that has been shut  *)
(* down, end: by the revocation of a deletion through REST, by Shutdown, and  *)
(* after a deletion through MCP by the revalidation ticker alone.             *)
CutOff ==
  \A s \in Streams :
    stream[s] \in Live /\ (project[projectOf[s]] \in Deleted \/ hub.closed) ~>
      stream[s] \in {"ended", "gone"}
=============================================================================
