----------------------------- MODULE GuildSessions -----------------------------
(***************************************************************************)
(* The sessions of a guild, listed page by page, and the migration of the  *)
(* listing to an index.                                                    *)
(*                                                                         *)
(* A session item carries the index keys, its state and the time of its    *)
(* last save, from when it was first saved by a writer that knows them.    *)
(* The table replicates them to the index later.  An operator projects     *)
(* the older items, verifies all of them, and writes the cutover marker;   *)
(* meanwhile and after it sessions are created and saved, and a reader     *)
(* lists them: by scans of the table before the marker, by one query for   *)
(* every wanted state after it, each page from a cursor of its own.        *)
(*                                                                         *)
(* One guild is modelled, and one listing: listings share nothing.         *)
(***************************************************************************)
EXTENDS Naturals, FiniteSets

CONSTANTS
    Sessions,       \* session IDs; their order breaks ties between times
    States,
    Wanted,         \* the states that the reader asks for
    None,
    Situations,     \* what is stored, what the operator and the reader do, and a bound
    PageSize,
    BackfillLimit

ASSUME GuildAssumption ==
    /\ Sessions \subseteq Nat \ {0} /\ IsFiniteSet(Sessions)
    /\ Wanted \subseteq States
    /\ None \notin Sessions /\ None \notin States
    /\ None \notin [id : Sessions, at : Nat, state : States]
    /\ PageSize \in Nat \ {0} /\ BackfillLimit \in Nat \ {0}
    \* what is stored has a state; a table found cut over has no legacy item
    /\ \A x \in Situations :
          /\ \A s \in DOMAIN x.stored : x.stored[s] \in States
          /\ x.cutover => x.legacy \cap DOMAIN x.stored = {}

VARIABLES
    situation,
    item,           \* the table: state, time of the last save, index keys
    index,          \* gsi2: the keys as replicated
    cutover,        \* the marker is READY
    claims,         \* the sessions whose card control token has a claim
    operator,       \* cmd/guild-session-index
    listing,        \* the reader
    clock,
    saves

vars == <<situation, item, index, cutover, claims, operator, listing, clock, saves>>

NoKeys == [state |-> None, at |-> 0]
NoItem == [state |-> None, at |-> 0, keys |-> NoKeys]
Exists(s) == item[s] # NoItem

\* What toSessionItem computes.
Keys(i) == [state |-> i.state, at |-> i.at]

Entry(s, keys) == [id |-> s, at |-> keys.at, state |-> keys.state]

\* Newest first, then by ID.
Precedes(a, b) == a.at > b.at \/ (a.at = b.at /\ a.id > b.id)
First(n, S) == {a \in S : Cardinality({b \in S : Precedes(b, a)}) < n}
Last(S) == CHOOSE a \in S : \A b \in S : a = b \/ Precedes(b, a)

-----------------------------------------------------------------------------
NoOperator == [stage |-> "idle", left |-> {}, page |-> {}, missing |-> FALSE,
               source |-> [st \in States |-> 0], indexed |-> [st \in States |-> 0]]

NoListing == [stage |-> "idle", mode |-> "none", target |-> None,
              position |-> [st \in Wanted |-> None], done |-> {}, after |-> None,
              asked |-> {}, streams |-> {}, full |-> {}, page |-> {}, more |-> FALSE,
              result |-> {}, moved |-> {}]

Init ==
    /\ situation \in Situations
    /\ item = [s \in Sessions |->
                 IF s \notin DOMAIN situation.stored THEN NoItem
                 ELSE [state |-> situation.stored[s], at |-> 1,
                       keys |-> IF s \in situation.legacy THEN NoKeys
                                ELSE [state |-> situation.stored[s], at |-> 1]]]
    /\ index = [s \in Sessions |-> item[s].keys]
    /\ cutover = situation.cutover
    /\ claims = situation.claimed
    /\ operator = NoOperator
    /\ listing = NoListing
    /\ clock = 1
    /\ saves = 0

-----------------------------------------------------------------------------
(* The writers: Create and SaveWithEvent, and the table *)

\* History: the sessions whose place changed while they were listed.
Moved(s) ==
    listing' = IF listing.stage = "idle" THEN listing
               ELSE [listing EXCEPT !.moved = @ \cup {s}]

toSessionItem(st, at) == [state |-> st, at |-> at, keys |-> [state |-> st, at |-> at]]

\* Two saves may have the same time.
Save(s, st) ==
    /\ saves < situation.saves /\ saves' = saves + 1
    /\ clock' \in {clock, clock + 1}
    /\ item' = [item EXCEPT ![s] = toSessionItem(st, clock')]
    /\ Moved(s)
    /\ UNCHANGED <<situation, index, cutover, claims, operator>>

Replicate(s) ==
    /\ index[s] # item[s].keys
    /\ index' = [index EXCEPT ![s] = item[s].keys]
    /\ IF listing.mode = "index" THEN Moved(s) ELSE UNCHANGED listing
    /\ UNCHANGED <<situation, item, cutover, claims, operator, clock, saves>>

-----------------------------------------------------------------------------
(* The operator: backfill, and cutover with its verification *)

StartBackfill ==
    /\ operator.stage = "idle" /\ situation.operates
    /\ operator' = [NoOperator EXCEPT !.stage = "backfill", !.left = Sessions]
    /\ UNCHANGED <<situation, item, index, cutover, claims, listing, clock, saves>>

\* The scan has an order of its own.
ScanPage ==
    /\ operator.stage = "backfill" /\ operator.page = {} /\ operator.left # {}
    /\ \E P \in SUBSET operator.left :
         /\ Cardinality(P) = BackfillLimit \/ P = operator.left
         /\ Cardinality(P) <= BackfillLimit
         /\ operator' = [operator EXCEPT !.left = @ \ P,
                           !.page = {[id |-> s, item |-> item[s]] : s \in {p \in P : Exists(p)}}]
    /\ UNCHANGED <<situation, item, index, cutover, claims, listing, clock, saves>>

\* The condition of the update; the version moves with every save.
CanProject(read) == Keys(item[read.id]) = Keys(read.item)

\* A conflict leaves the item to the save that caused it.
ProjectItem ==
    /\ operator.stage = "backfill"
    /\ \E read \in operator.page :
         /\ operator' = [operator EXCEPT !.page = @ \ {read}]
         /\ item' = IF CanProject(read)
                    THEN [item EXCEPT ![read.id].keys = Keys(read.item)] ELSE item
    /\ UNCHANGED <<situation, index, cutover, claims, listing, clock, saves>>

\* The end of it, an error on the way, or the end of the process.
StopOperator ==
    /\ operator.stage # "idle"
    /\ operator' = NoOperator
    /\ UNCHANGED <<situation, item, index, cutover, claims, listing, clock, saves>>

StartCutover ==
    /\ operator.stage = "idle" /\ situation.operates /\ ~cutover
    /\ operator' = [NoOperator EXCEPT !.stage = "source", !.left = Sessions]
    /\ UNCHANGED <<situation, item, index, cutover, claims, listing, clock, saves>>

VerifySource ==
    /\ operator.stage = "source"
    /\ IF operator.left = {}
       THEN operator' = [operator EXCEPT !.stage = "index", !.left = Sessions]
       ELSE LET s == CHOOSE x \in operator.left : \A y \in operator.left : x <= y
            IN  operator' = [operator EXCEPT
                   !.left = @ \ {s},
                   !.missing = @ \/ (Exists(s) /\ item[s].keys # Keys(item[s])),
                   !.source = [st \in States |-> IF item[s].state = st THEN @[st] + 1 ELSE @[st]]]
    /\ UNCHANGED <<situation, item, index, cutover, claims, listing, clock, saves>>

VerifyIndex ==
    /\ operator.stage = "index" /\ operator.left # {}
    /\ LET s == CHOOSE x \in operator.left : \A y \in operator.left : x <= y
       IN  operator' = [operator EXCEPT
              !.left = @ \ {s},
              !.indexed = [st \in States |-> IF index[s].state = st THEN @[st] + 1 ELSE @[st]]]
    /\ UNCHANGED <<situation, item, index, cutover, claims, listing, clock, saves>>

\* Mutant: the counts of the states are compared, the keys are not.
CountsAreValid == operator.source = operator.indexed

Valid == ~operator.missing /\ operator.source = operator.indexed

EnableGuildSessionIndex ==
    /\ operator.stage = "index" /\ operator.left = {} /\ Valid
    /\ cutover' = TRUE
    /\ operator' = NoOperator
    /\ UNCHANGED <<situation, item, index, claims, listing, clock, saves>>

-----------------------------------------------------------------------------
(* The reader: ListGuildSessions, and what selects by it *)

Start(target) ==
    /\ listing.stage = "idle" /\ target \in situation.targets
    /\ listing' = [NoListing EXCEPT !.stage = "page", !.target = target]
    /\ UNCHANGED <<situation, item, index, cutover, claims, operator, clock, saves>>

\* The token of a card is looked up in its claim first.
ResolveCardControl(s) ==
    /\ s \in claims /\ listing.stage = "idle" /\ s \in situation.targets
    /\ listing' = [NoListing EXCEPT !.stage = "done", !.target = s, !.result = {s}]
    /\ UNCHANGED <<situation, item, index, cutover, claims, operator, clock, saves>>

ResolveLegacyCardControl(s) == s \notin claims /\ Start(s)

\* A cursor stays with the mode that it was made in.
CursorMode == IF listing.mode # "none" THEN listing.mode
              ELSE IF cutover THEN "index" ELSE "scan"

\* A place in the index that is still to be replicated is about to move.
Lagging == {s \in Sessions : index[s] # item[s].keys}

ListPage ==
    /\ listing.stage = "page"
    /\ listing' = [listing EXCEPT
                     !.stage = CursorMode, !.mode = CursorMode,
                     !.moved = IF listing.mode = "none" /\ CursorMode = "index"
                               THEN @ \cup Lagging ELSE @,
                     !.asked = Wanted \ listing.done, !.streams = {}, !.full = {}]
    /\ UNCHANGED <<situation, item, index, cutover, claims, operator, clock, saves>>

\* From the position of the cursor, the first entries of the state.
QueryState(st) ==
    /\ listing.stage = "index" /\ st \in listing.asked
    /\ LET from == listing.position[st]
           range == {Entry(s, index[s]) : s \in {x \in Sessions : index[x].state = st}}
           stream == First(PageSize, IF from = None THEN range
                                     ELSE {e \in range : Precedes(from, e)})
       IN  listing' = [listing EXCEPT
                         !.asked = @ \ {st}, !.streams = @ \cup stream,
                         !.full = IF Cardinality(stream) = PageSize THEN @ \cup {st} ELSE @]
    /\ UNCHANGED <<situation, item, index, cutover, claims, operator, clock, saves>>

\* Mutant: every stream is taken for consumed.
StreamPosition(st, page) ==
    LET read == {e \in listing.streams : e.state = st}
    IN  IF read = {} THEN listing.position[st] ELSE Last(read)

\* A stream moves on by what the page has taken of it.
NextPosition(st, page) ==
    LET taken == {e \in page : e.state = st}
    IN  IF taken = {} THEN listing.position[st] ELSE Last(taken)

MergePage ==
    /\ listing.stage = "index" /\ listing.asked = {}
    /\ LET page == First(PageSize, listing.streams)
           open == {st \in Wanted \ listing.done :
                      \/ st \in listing.full
                      \/ \E e \in listing.streams \ page : e.state = st}
       IN  listing' = [listing EXCEPT
                         !.stage = "revalidate", !.page = {e.id : e \in page},
                         !.position = [st \in Wanted |-> NextPosition(st, page)],
                         !.done = Wanted \ open, !.more = open # {},
                         !.streams = {}, !.full = {}]
    /\ UNCHANGED <<situation, item, index, cutover, claims, operator, clock, saves>>

\* The whole table at once, and what comes after the cursor of it.
ScanCompatibility ==
    /\ listing.stage = "scan"
    /\ LET sessions == {Entry(s, item[s]) : s \in {x \in Sessions : item[x].state \in Wanted}}
           rest == IF listing.after = None THEN sessions
                   ELSE {e \in sessions : Precedes(listing.after, e)}
           page == First(PageSize, rest)
       IN  listing' = [listing EXCEPT
                         !.stage = "revalidate", !.page = {e.id : e \in page},
                         !.more = page # rest,
                         !.after = IF page # rest THEN Last(page) ELSE None]
    /\ UNCHANGED <<situation, item, index, cutover, claims, operator, clock, saves>>

Done(result) ==
    [NoListing EXCEPT !.stage = "done", !.target = listing.target, !.result = result,
                      !.moved = listing.moved]

\* Every candidate is read again; the one whose token is searched gets its claim.
Revalidate(s) ==
    /\ listing.stage = "revalidate" /\ s \in listing.page
    /\ IF listing.target = s
       THEN /\ listing' = Done({s})
            /\ claims' = claims \cup {s}
       ELSE /\ listing' = [listing EXCEPT
                             !.page = @ \ {s},
                             !.result = IF listing.target = None /\ item[s].state \in Wanted
                                        THEN @ \cup {s} ELSE @]
            /\ UNCHANGED claims
    /\ UNCHANGED <<situation, item, index, cutover, operator, clock, saves>>

EndPage ==
    /\ listing.stage = "revalidate" /\ listing.page = {}
    /\ listing' = IF listing.more THEN [listing EXCEPT !.stage = "page"]
                  ELSE Done(listing.result)
    /\ UNCHANGED <<situation, item, index, cutover, claims, operator, clock, saves>>

-----------------------------------------------------------------------------
Writer == \E s \in Sessions : (\E st \in States : Save(s, st)) \/ Replicate(s)

Operator ==
    \/ StartBackfill \/ ScanPage \/ ProjectItem \/ StopOperator
    \/ StartCutover \/ VerifySource \/ VerifyIndex \/ EnableGuildSessionIndex

Reader ==
    \/ Start(None) \/ ListPage \/ MergePage \/ ScanCompatibility \/ EndPage
    \/ \E s \in Sessions : ResolveCardControl(s) \/ ResolveLegacyCardControl(s) \/ Revalidate(s)
    \/ \E st \in Wanted : QueryState(st)

Next == Writer \/ Operator \/ Reader

Spec == Init /\ [][Next]_vars

-----------------------------------------------------------------------------
\* Once the index is read, every session is in it, under the state and the time
\* of its last save, whatever was created or saved during the backfill and the
\* verification.
CutoverIsComplete ==
    cutover => \A s \in Sessions : item[s].keys = Keys(item[s])

\* A listing that came to its end has every session whose place stayed the same
\* while it was listed: whatever others were created or saved between its pages
\* and queries, and whether or not the cutover came in between.
UnmovedAreListed ==
    listing.stage = "done" =>
        \A s \in Sessions \ listing.moved :
            /\ listing.target = None /\ item[s].state \in Wanted => s \in listing.result
            /\ listing.target = s /\ item[s].state \in Wanted => listing.result = {s}
=============================================================================
