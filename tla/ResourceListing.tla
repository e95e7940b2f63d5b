--------------------------- MODULE ResourceListing ---------------------------
(***************************************************************************)
(* GET /api/resources (src/internal/api/api.go) while streams store and    *)
(* resolve.  Store.Resources copies every Resource under the read lock,    *)
(* but not the slice of relations it points to; the JSON encoder reads     *)
(* TargetUID and Resolved from that slice after the lock is released.      *)
(* UpsertResources gives a UID a new Resource with a new slice, so an old  *)
(* one is no longer written to; ResolveRelations writes in place.          *)
(*                                                                         *)
(* That is a data race.  A Go string is read as two words, a pointer and a *)
(* length, and Resolved as a third; each may be read before or after the   *)
(* writes of a ResolveRelations, so each is a step of its own, in any      *)
(* order.                                                                  *)
(***************************************************************************)
EXTENDS MetaIngest

CONSTANTS
    Listers,        \* GET /api/resources requests
    Filters         \* [ns, kind] of the query, "" for no filter

VARIABLES
    lister,         \* where each request is: request, encoding, done or cut
    detached,       \* the slices it holds that are not in the store any more
    todo,           \* the relations still to encode
    word,           \* the words of the relation being encoded, as read so far
    shown           \* the relations in the response

listVars == <<lister, detached, todo, word, shown>>
allVars == <<vars, listVars>>

Words == {"pointer", "length", "resolved"}
NoLinks == [r \in {} |-> NoUID]

(* Bound: one HTTP request per behaviour, a listing or a summary.  Requests
   only read, and share nothing with each other. *)
FirstRequest == /\ \A l \in Listers : lister[l] = "request"
                /\ \A r \in Readers : pc[r] = "relationStat"

Passes(f, k) == (f.ns = "" \/ k.ns = f.ns) /\ (f.kind = "" \/ k.kind = f.kind)

(* Store.Resources *)
Snapshot(l) ==
    /\ FirstRequest /\ lister' = [lister EXCEPT ![l] = "encoding"]
    /\ \E f \in Filters :
        todo' = [todo EXCEPT ![l] = {r \in Relations : Passes(f, KeyOf[r[1]])}]
    /\ UNCHANGED <<vars, detached, word, shown>>

(* The relation being encoded: the order of the response is fixed *)
Current(l) == CHOOSE r \in todo[l] : TRUE

(* What is in memory where the request's slice is *)
InMemory(l, r) ==
    IF r[1] \in DOMAIN detached[l] THEN detached[l][r[1]][r[2]]
                                   ELSE resources[r[1]][r[2]]

ReadWord(l) ==
    /\ lister[l] = "encoding" /\ todo[l] # {}
    /\ LET link == InMemory(l, Current(l)) IN
       \E w \in Words \ DOMAIN word[l] :
           word' = [word EXCEPT ![l] = [x \in DOMAIN @ \cup {w} |->
               IF x # w THEN @[x]
               ELSE CASE w = "pointer" -> link.uid
                      [] w = "length" -> link.uid # NoUID
                      [] w = "resolved" -> link.resolved]]
    /\ UNCHANGED <<vars, lister, detached, todo, shown>>

Torn(l) == word[l].length /\ word[l].pointer = NoUID

Encode(l) ==
    /\ lister[l] = "encoding" /\ DOMAIN word[l] = Words /\ ~Torn(l)
    /\ shown' = [shown EXCEPT ![l] = [r \in DOMAIN @ \cup {Current(l)} |->
           IF r # Current(l) THEN @[r]
           ELSE [uid |-> IF word[l].length THEN word[l].pointer ELSE NoUID,
                 resolved |-> word[l].resolved]]]
    /\ todo' = [todo EXCEPT ![l] = @ \ {Current(l)}]
    /\ word' = [word EXCEPT ![l] = NoLinks]
    /\ UNCHANGED <<vars, lister, detached>>

(* A length without a pointer: the encoder panics, and net/http ends the
   connection *)
EncodeTorn(l) ==
    /\ lister[l] = "encoding" /\ DOMAIN word[l] = Words /\ Torn(l)
    /\ lister' = [lister EXCEPT ![l] = "cut"]
    /\ UNCHANGED <<vars, detached, todo, word, shown>>

EndListing(l) ==
    /\ lister[l] = "encoding" /\ todo[l] = {}
    /\ lister' = [lister EXCEPT ![l] = "done"]
    /\ UNCHANGED <<vars, detached, todo, word, shown>>

List(l) == Snapshot(l) \/ ReadWord(l) \/ Encode(l) \/ EncodeTorn(l) \/ EndListing(l)

(* The slices of the replaced resources stay as they are, for whoever is
   reading them; nobody who has not begun to read holds any. *)
Detach(uids) ==
    /\ detached' = [l \in Listers |->
           IF lister[l] # "encoding" THEN detached[l]
           ELSE [u \in DOMAIN detached[l] \cup (uids \cap {r[1] : r \in todo[l]}) |->
                    IF u \in DOMAIN detached[l] THEN detached[l][u] ELSE resources[u]]]
    /\ UNCHANGED <<lister, todo, word, shown>>

-----------------------------------------------------------------------------
ListingInit ==
    /\ Init
    /\ lister = [l \in Listers |-> "request"]
    /\ detached = [l \in Listers |-> [u \in {} |-> NoLinks]]
    /\ todo = [l \in Listers |-> {}]
    /\ word = [l \in Listers |-> NoLinks]
    /\ shown = [l \in Listers |-> NoLinks]

Store(s) ==
    \/ \E b \in Batches : /\ AcceptBatch(s, b)
                          /\ Detach({o.uid : o \in b.resources})
    \/ /\ Reject(s) \/ EndOfStream(s) \/ Abort(s) \/ Finish(s)
       /\ UNCHANGED listVars

Summarise(r) == /\ FirstRequest \/ pc[r] # "relationStat"
                /\ Summary(r) /\ UNCHANGED listVars

(* No call is left to serve *)
ListingIdle ==
    /\ \A s \in Streams : pc[s] \in {"done", "failed"}
    /\ \/ \E l \in Listers : lister[l] \in {"done", "cut"}
       \/ \E r \in Readers : pc[r] = "done"
    /\ UNCHANGED allVars

ListingNext ==
    \/ \E s \in Streams : Store(s)
    \/ \E r \in Readers : Summarise(r)
    \/ \E l \in Listers : List(l)
    \/ ListingIdle

(* A request, like a handler, runs to its end. *)
ListingSpec == /\ ListingInit /\ [][ListingNext]_allVars
               /\ \A s \in Streams : WF_vars(Finish(s))
               /\ \A l \in Listers : WF_allVars(List(l))

-----------------------------------------------------------------------------
(***************************************************************************)
(* Properties.                                                             *)
(***************************************************************************)

Given(r, uid) == \E o \in Observations :
                    o.uid = r[1] /\ r[2] \in DOMAIN o.refs /\ o.refs[r[2]] = uid

(* Whatever races with the encoder, no response names a resource that the
   relation is not about, and none calls a relation resolved for which the
   store, or the agent, has no target: what is shown may be old or half
   written, never somebody else's. *)
ListedIsTrue ==
    \A l \in Listers : \A r \in DOMAIN shown[l] :
        LET link == shown[l][r] IN
        /\ link.uid # NoUID => KeyOf[link.uid] = r[2]
        /\ link.resolved =>
               Holders(r[2]) # {} \/ \E uid \in UIDs : Given(r, uid)

(* store.go:23: Resolved says whether the name was resolved to a UID, and
   store.go:6 that the store takes concurrent access as a real one would:
   a relation that a response shows as resolved has a UID there. *)
ListedLinksHold ==
    \A l \in Listers : \A r \in DOMAIN shown[l] :
        shown[l][r].resolved => shown[l][r].uid # NoUID
=============================================================================
