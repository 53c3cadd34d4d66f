--------------------------- MODULE CharacterPanel ---------------------------
(***************************************************************************)
(* The panel of stylists who work as characters (api/v1/personas.py,         *)
(* api/v1/admin.py, metrics/stylist_kpis.py): roles, assignments, reviews    *)
(* and the report over them, in requests that overlap.  A request decides    *)
(* from what it reads first and writes when it commits; only rows it found   *)
(* different are written, and what another request did meanwhile is not      *)
(* read again.                                                              *)
(***************************************************************************)
EXTENDS Integers, Sequences, FiniteSets, Functions

CONSTANTS
    FirstRoles,     \* account -> the roles it begins with
    Characters,
    CharacterOf,    \* outfit -> the character it was made for
    Slots,          \* requests that may be under way at once
    MaxRequests     \* bound on the requests of a behaviour

People == DOMAIN FirstRoles
Outfits == DOMAIN CharacterOf
Roles == {"admin", "stylist"}

ASSUME PanelAssumption ==
    /\ FirstRoles \in [People -> SUBSET Roles]
    /\ \E u \in People : "admin" \in FirstRoles[u]
    /\ IsFiniteSet(Characters) /\ CharacterOf \in [Outfits -> Characters]
    /\ MaxRequests \in Nat

VARIABLES
    granted,    \* UserRole rows
    assigned,   \* PersonaAssignment rows, by character and stylist
    outfits,    \* the outfits made for characters so far
    reviews,    \* PersonaOutfitReview rows
    request,    \* what each slot is doing
    kpis,       \* the last answer of the metrics endpoint
    shared,     \* characters assigned without exclusivity, or by two at once
    unwatched,  \* two revocations of admin rights have overlapped
    requests    \* how many requests there were

panelVars == <<granted, assigned, outfits, reviews, request, kpis, shared, unwatched, requests>>

Row == {"none", "active", "revoked"}
Idle == [op |-> "idle"]
NoKpis == [made |-> FALSE]

PanelInit ==
    /\ granted = FirstRoles
    /\ assigned = [c \in Characters |-> [u \in People |-> "none"]]
    /\ outfits = {} /\ reviews = {}
    /\ request = [k \in Slots |-> Idle]
    /\ kpis = NoKpis
    /\ shared = {} /\ unwatched = FALSE /\ requests = 0

Admins == {u \in People : "admin" \in granted[u]}
ActiveFor(c) == {u \in People : assigned[c][u] = "active"}

RequireAdmin(u) == u \in Admins
RequireStylist(u) == granted[u] \cap Roles # {}
\* get_acting_scope and _require_access: the assignment, not the role, counts.
MayReach(u, c) == u \in Admins \/ u \in ActiveFor(c)

\* Which requests get in each other's way: assignments of one character, and
\* revocations of admin rights.
InTheWay(r, q) ==
    r.op = q.op /\ r.op \in {"assign", "revoke role"} /\ r.on = q.on

\* The request of a slot begins with what it read; alone says that none that
\* gets in its way was or has been under way with it.
Start(k, r) ==
    LET rivals == {j \in Slots : InTheWay(request[j], r)}
    IN /\ request[k] = Idle /\ requests < MaxRequests
       /\ requests' = requests + 1
       /\ request' = [j \in Slots |->
             IF j = k THEN [r EXCEPT !.alone = rivals = {}]
             ELSE IF j \in rivals THEN [request[j] EXCEPT !.alone = FALSE]
             ELSE request[j]]

Finish(k) == request' = [request EXCEPT ![k] = Idle]

-----------------------------------------------------------------------------
(* Assignments                                                              *)

\* A mutant of Others: an exclusive assignment ends nobody's.
NoOthers(c, s, exclusive) == {}
\* Those whose assignment an exclusive one ends.
Others(c, s, exclusive) == IF exclusive THEN ActiveFor(c) \ {s} ELSE {}

StartAssign(k, u, c, s) ==
    /\ RequireAdmin(u)
    /\ \E exclusive \in BOOLEAN :
          Start(k, [op |-> "assign", on |-> c, to |-> s, exclusive |-> exclusive,
                    others |-> Others(c, s, exclusive), row |-> assigned[c][s],
                    alone |-> TRUE])
    /\ UNCHANGED <<granted, assigned, outfits, reviews, kpis, shared, unwatched>>

\* A row that was there and active is not written; a new one must still be new.
CommitAssign(k) ==
    LET r == request[k]
        after == [u \in People |->
                    IF u \in r.others THEN "revoked"
                    ELSE IF u = r.to /\ r.row # "active" THEN "active"
                    ELSE assigned[r.on][u]]
    IN /\ r.op = "assign"
       /\ Finish(k)
       /\ IF r.row = "none" /\ assigned[r.on][r.to] # "none"
          THEN UNCHANGED <<assigned, shared>>
          ELSE /\ assigned' = [assigned EXCEPT ![r.on] = after]
               /\ shared' = IF r.exclusive /\ r.alone THEN shared \ {r.on} ELSE shared \cup {r.on}
       /\ UNCHANGED <<granted, outfits, reviews, kpis, unwatched, requests>>

StartRevoke(k, u, c, s) ==
    /\ RequireAdmin(u) /\ assigned[c][s] # "none"
    /\ Start(k, [op |-> "revoke", on |-> c, to |-> s, row |-> assigned[c][s], alone |-> TRUE])
    /\ UNCHANGED <<granted, assigned, outfits, reviews, kpis, shared, unwatched>>

CommitRevoke(k) ==
    LET r == request[k]
    IN /\ r.op = "revoke"
       /\ Finish(k)
       /\ assigned' = IF r.row = "active" THEN [assigned EXCEPT ![r.on][r.to] = "revoked"]
                      ELSE assigned
       /\ UNCHANGED <<granted, outfits, reviews, kpis, shared, unwatched, requests>>

-----------------------------------------------------------------------------
(* Roles                                                                    *)

StartGrantRole(k, u, v, role) ==
    /\ RequireAdmin(u) /\ role \notin granted[v]
    /\ Start(k, [op |-> "grant role", on |-> v, role |-> role, alone |-> TRUE])
    /\ UNCHANGED <<granted, assigned, outfits, reviews, kpis, shared, unwatched>>

\* A second grant of the same role fails on the unique constraint.
CommitGrantRole(k) ==
    LET r == request[k]
    IN /\ r.op = "grant role"
       /\ Finish(k)
       /\ granted' = [granted EXCEPT ![r.on] = @ \cup {r.role}]
       /\ UNCHANGED <<assigned, outfits, reviews, kpis, shared, unwatched, requests>>

\* A mutant of RefusesRevocation: nothing is refused.
NeverRefuses(u, v, role) == FALSE
\* Nobody takes their own admin role away.
RefusesRevocation(u, v, role) == u = v /\ role = "admin"

StartRevokeRole(k, u, v, role) ==
    /\ RequireAdmin(u) /\ ~RefusesRevocation(u, v, role) /\ role \in granted[v]
    /\ Start(k, [op |-> "revoke role", on |-> role, of |-> v, alone |-> TRUE])
    /\ UNCHANGED <<granted, assigned, outfits, reviews, kpis, shared, unwatched>>

\* The assignments of the account stay as they are.
CommitRevokeRole(k) ==
    LET r == request[k]
    IN /\ r.op = "revoke role"
       /\ Finish(k)
       /\ granted' = [granted EXCEPT ![r.of] = @ \ {r.on}]
       /\ unwatched' = (unwatched \/ (r.on = "admin" /\ ~r.alone))
       /\ UNCHANGED <<assigned, outfits, reviews, kpis, shared, requests>>

-----------------------------------------------------------------------------
(* Work done as a character                                                 *)

StartStyling(k, u, c) ==
    /\ MayReach(u, c)
    /\ Start(k, [op |-> "style", on |-> c, alone |-> TRUE])
    /\ UNCHANGED <<granted, assigned, outfits, reviews, kpis, shared, unwatched>>

CommitStyling(k) ==
    /\ request[k].op = "style"
    /\ Finish(k)
    /\ \E o \in Outfits \ outfits : CharacterOf[o] = request[k].on /\ outfits' = outfits \cup {o}
    /\ UNCHANGED <<granted, assigned, reviews, kpis, shared, unwatched, requests>>

StartReview(k, u, o) ==
    /\ o \in outfits
    /\ RequireStylist(u) /\ MayReach(u, CharacterOf[o])
    /\ Start(k, [op |-> "review", on |-> [outfit |-> o, by |-> u], alone |-> TRUE])
    /\ UNCHANGED <<granted, assigned, outfits, reviews, kpis, shared, unwatched>>

\* One review of an outfit by each reviewer, revised in place; two first
\* reviews at once leave one.
CommitReview(k) ==
    /\ request[k].op = "review"
    /\ Finish(k)
    /\ reviews' = reviews \cup {request[k].on}
    /\ UNCHANGED <<granted, assigned, outfits, kpis, shared, unwatched, requests>>

-----------------------------------------------------------------------------
(* The report: one query after another, then arithmetic.                    *)

\* A mutant of Queries: the outfits are read before the reviews.
OutfitsFirst == <<"assigned", "outfits", "reviews">>
Queries == <<"assigned", "reviews", "outfits">>

StartReport(k, u) ==
    /\ RequireAdmin(u)
    /\ Start(k, [op |-> "report", on |-> 1, assigned |-> assigned,
                 reviews |-> {}, outfits |-> {}, alone |-> TRUE])
    /\ UNCHANGED <<granted, assigned, outfits, reviews, kpis, shared, unwatched>>

ReadNext(k) ==
    LET r == request[k]
        next == [r EXCEPT !.on = @ + 1]
    IN /\ r.op = "report" /\ r.on < 3
       /\ request' = [request EXCEPT ![k] =
             IF Queries[r.on + 1] = "reviews" THEN [next EXCEPT !.reviews = reviews]
             ELSE [next EXCEPT !.outfits = outfits]]
       /\ UNCHANGED <<granted, assigned, outfits, reviews, kpis, shared, unwatched, requests>>

OfCharacter(d, c) == {o \in d.outfits : CharacterOf[o] = c}
ReviewedBy(d, people, c) ==
    {r.outfit : r \in {r \in d.reviews : r.by \in people /\ CharacterOf[r.outfit] = c}}

Line(total, reviewed) == [total |-> total, reviewed |-> reviewed, backlog |-> total - reviewed]

\* A stylist and a character who have to do with each other.
Cells(d) ==
    {[by |-> p[1], on |-> p[2], line |-> Line(Cardinality(OfCharacter(d, p[2])),
                                              Cardinality(ReviewedBy(d, {p[1]}, p[2])))] :
        p \in {p \in People \X Characters :
            d.assigned[p[2]][p[1]] = "active" \/ ReviewedBy(d, {p[1]}, p[2]) # {}}}

CharacterLine(d, c) ==
    Line(Cardinality(OfCharacter(d, c)), Cardinality(ReviewedBy(d, People, c)))

\* Over the characters assigned to the stylist now.
StylistLine(d, u) ==
    LET mine == {c \in Characters : d.assigned[c][u] = "active"}
    IN Line(SumFunction([c \in mine |-> Cardinality(OfCharacter(d, c))]),
            SumFunction([c \in mine |-> Cardinality(ReviewedBy(d, {u}, c))]))

Totals(d) == Line(Cardinality(d.outfits), Cardinality({r.outfit : r \in d.reviews}))

ComputeKpis(d) ==
    [made |-> TRUE, cells |-> Cells(d),
     characters |-> [c \in Characters |-> CharacterLine(d, c)],
     stylists |-> [u \in People |-> StylistLine(d, u)],
     totals |-> Totals(d)]

MakeReport(k) ==
    LET r == request[k]
    IN /\ r.op = "report" /\ r.on = 3
       /\ Finish(k)
       /\ kpis' = ComputeKpis(r)
       /\ UNCHANGED <<granted, assigned, outfits, reviews, shared, unwatched, requests>>

PanelNext ==
    \E k \in Slots :
        \/ \E u, v \in People :
              \/ \E c \in Characters : StartAssign(k, u, c, v) \/ StartRevoke(k, u, c, v)
              \/ \E role \in Roles : StartGrantRole(k, u, v, role) \/ StartRevokeRole(k, u, v, role)
        \/ \E u \in People :
              \/ \E c \in Characters : StartStyling(k, u, c)
              \/ \E o \in Outfits : StartReview(k, u, o)
              \/ StartReport(k, u)
        \/ CommitAssign(k) \/ CommitRevoke(k) \/ CommitGrantRole(k) \/ CommitRevokeRole(k)
        \/ CommitStyling(k) \/ CommitReview(k) \/ ReadNext(k) \/ MakeReport(k)

PanelSpec == PanelInit /\ [][PanelNext]_panelVars

-----------------------------------------------------------------------------

PanelTypeOK ==
    /\ granted \in [People -> SUBSET Roles]
    /\ assigned \in [Characters -> [People -> Row]]
    /\ outfits \subseteq Outfits
    /\ reviews \subseteq [outfit : outfits, by : People]
    /\ shared \subseteq Characters /\ requests \in 0..MaxRequests

\* "Exclusive by default" (personas.py:430): a character has two stylists only
\* if the last assignment was not exclusive or overlapped with another.
ExclusiveUnlessOverlapped ==
    \A c \in Characters : Cardinality(ActiveFor(c)) > 1 => c \in shared

\* "Removing your own last admin role locks everyone out of this router"
\* (admin.py:109): however roles are granted and revoked, somebody is left who
\* can, unless two revocations of admin rights overlapped.
AnAdminRemains == Admins # {} \/ unwatched

Lines(r) == {x.line : x \in r.cells} \cup {r.characters[c] : c \in Characters}
                \cup {r.stylists[u] : u \in People} \cup {r.totals}

\* No line of the report has more outfits reviewed than there are, although
\* outfits and reviews go on arriving between its queries, and the characters'
\* backlogs add up to the whole (stylist_metrics, compute_stylist_kpis).
ReportAddsUp ==
    kpis.made =>
        /\ \A line \in Lines(kpis) : line.backlog >= 0
        /\ kpis.totals.backlog = SumFunction([c \in Characters |-> kpis.characters[c].backlog])
=============================================================================
