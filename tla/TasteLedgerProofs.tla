------------------------- MODULE TasteLedgerProofs -------------------------
(***************************************************************************)
(* Proofs about TasteLedger, for every set of requests.  A request that has  *)
(* flushed its row keeps others off it until it ends (RowsAreApart,          *)
(* FlushesFit), one that has inserted the profile does so for the profile    *)
(* (CreatesTheFirst), and no copy of the profile holds what is not committed *)
(* (CopiesAreCommitted).                                                     *)
(***************************************************************************)
EXTENDS TasteLedger, TLAPS

-----------------------------------------------------------------------------
(* The inductive invariant                                                  *)

\* Only thumbs load the profile first.
ThumbsStart == \A b \in Ballots : ballot[b].at = "profile" => b \in Thumbs

\* The profile a request has loaded by now.
LoadedBy(b) ==
    \/ b \in Thumbs /\ ballot[b].at \in {"row", "reading", "learning", "saving"}
    \/ b \notin Thumbs /\ ballot[b].lesson /\ ballot[b].at = "saving"

ProfilesAreLoaded == \A b \in Ballots : LoadedBy(b) => mine[b].profile # NoRow

\* Two requests never hold one row.
RowsAreApart ==
    \A b, c \in Ballots : b # c /\ Key[b] = Key[c] => ~(HoldsRow(b) /\ HoldsRow(c))

\* A flush that went through still fits the committed row.
FlushesFit == \A b \in Ballots : HoldsRow(b) => ~RowConflicts(b)

\* A profile is inserted where none is committed.
CreatesTheFirst == \A b \in Ballots : ballot[b].creates => profile = NoRow

\* A session's copy of the profile holds committed opinions only.
CopiesAreCommitted ==
    \A b \in Ballots : mine[b].profile # NoRow =>
        mine[b].profile.count \cup mine[b].profile.taste \subseteq Saved

LedgerInv ==
    /\ LedgerTypeOK /\ AllOrNothing /\ OpinionsKept
    /\ ThumbsStart /\ ProfilesAreLoaded /\ RowsAreApart /\ FlushesFit
    /\ CreatesTheFirst /\ CopiesAreCommitted

-----------------------------------------------------------------------------
(* What carries over                                                        *)

BallotPlaces == {"idle", "profile", "creating", "row", "reading", "learning", "saving",
                 "saved", "error"}
CopyPair == [row : Opinion \cup {NoRow}, profile : Profile \cup {NoRow}]

\* A request's part of the state, in the type.
LEMMA BallotIsTyped ==
    ASSUME LedgerTypeOK, NEW b \in Ballots
    PROVE  /\ ballot[b] \in Ballot /\ ballot[b].at \in BallotPlaces
           /\ ballot[b].vote \in {"up", "down", "none"}
           /\ ballot[b].lesson \in BOOLEAN /\ ballot[b].creates \in BOOLEAN
           /\ mine[b] \in CopyPair /\ mine[b].row \in Opinion \cup {NoRow}
           /\ mine[b].profile \in Profile \cup {NoRow}
           /\ Key[b] \in Keys /\ ledger[Key[b]] \in Opinion \cup {NoRow}
<1>1. ballot[b] \in Ballot /\ mine[b] \in CopyPair
    BY DEF LedgerTypeOK, CopyPair
<1>2. /\ ballot[b].at \in BallotPlaces /\ ballot[b].vote \in {"up", "down", "none"}
      /\ ballot[b].lesson \in BOOLEAN /\ ballot[b].creates \in BOOLEAN
    BY <1>1 DEF Ballot, BallotPlaces
<1>3. mine[b].row \in Opinion \cup {NoRow} /\ mine[b].profile \in Profile \cup {NoRow}
    BY <1>1 DEF CopyPair
<1>4. Key[b] \in Keys
    BY DEF Keys
<1>5. ledger[Key[b]] \in Opinion \cup {NoRow}
    BY <1>4 DEF LedgerTypeOK
<1> QED
    BY <1>1, <1>2, <1>3, <1>4, <1>5

\* One request's move leaves the others where they were.
LEMMA OneRequestMoves ==
    ASSUME LedgerTypeOK, NEW b \in Ballots, NEW r \in Ballot, NEW m \in CopyPair,
           ballot' = [ballot EXCEPT ![b] = r], mine' = [mine EXCEPT ![b] = m]
    PROVE  /\ ballot' \in [Ballots -> Ballot] /\ mine' \in [Ballots -> CopyPair]
           /\ ballot'[b] = r /\ mine'[b] = m
           /\ \A c \in Ballots \ {b} : ballot'[c] = ballot[c] /\ mine'[c] = mine[c]
BY DEF LedgerTypeOK, CopyPair

\* A request before its commit: what it must see to for the invariant to stay.
LEMMA PrivateStep ==
    ASSUME LedgerInv, NEW b \in Ballots, NEW r \in Ballot, NEW m \in CopyPair,
           ballot' = [ballot EXCEPT ![b] = r], mine' = [mine EXCEPT ![b] = m],
           UNCHANGED <<ledger, profile, said, raced>>,
           ballot[b].at # "saved", r.at # "saved",
           r.at = "profile" => b \in Thumbs,
           LoadedBy(b)' => m.profile # NoRow,
           HoldsRow(b)' => (HoldsRow(b) \/ RowFree(b)) /\ ~RowConflicts(b)',
           r.creates => profile = NoRow,
           m.profile # NoRow => m.profile.count \cup m.profile.taste \subseteq Saved
    PROVE  LedgerInv'
<1>1. /\ ballot' \in [Ballots -> Ballot] /\ mine' \in [Ballots -> CopyPair]
      /\ ballot'[b] = r /\ mine'[b] = m
      /\ \A c \in Ballots \ {b} : ballot'[c] = ballot[c] /\ mine'[c] = mine[c]
    BY OneRequestMoves DEF LedgerInv
<1>2. LedgerTypeOK'
    BY <1>1 DEF LedgerInv, LedgerTypeOK, CopyPair
<1>3. Saved' = Saved
    BY <1>1 DEF Saved
<1>4. \A c \in Saved : c # b /\ Touches(c)' = Touches(c)
    BY <1>1 DEF Saved, Touches
<1>5. Columns' = Columns
    BY DEF Columns
<1>6. AllOrNothing'
    BY <1>3, <1>5 DEF LedgerInv, AllOrNothing
<1>7. OpinionsKept'
    <2>1. {c \in Saved : Touches(c)}' = {c \in Saved : Touches(c)}
        BY <1>3, <1>4
    <2> QED
        BY <2>1, <1>3, <1>5 DEF LedgerInv, OpinionsKept
<1>8. ThumbsStart'
    BY <1>1 DEF LedgerInv, ThumbsStart
<1>9. ProfilesAreLoaded'
    <2>1. \A c \in Ballots \ {b} : LoadedBy(c)' = LoadedBy(c)
        BY <1>1 DEF LoadedBy
    <2> QED
        BY <2>1, <1>1 DEF LedgerInv, ProfilesAreLoaded
<1>10. \A c \in Ballots \ {b} : HoldsRow(c)' = HoldsRow(c) /\ RowConflicts(c)' = RowConflicts(c)
    BY <1>1 DEF HoldsRow, RowConflicts
<1>11. RowsAreApart'
    <2> SUFFICES ASSUME NEW c \in Ballots, NEW d \in Ballots, c # d, Key[c] = Key[d],
                        HoldsRow(c)', HoldsRow(d)'
                 PROVE  FALSE
        BY DEF RowsAreApart
    <2>1. \A e \in Ballots \ {b} : Key[e] = Key[b] /\ HoldsRow(e) => ~HoldsRow(b)'
        BY DEF LedgerInv, RowsAreApart, RowFree
    <2>2. CASE c = b
        BY <2>1, <2>2, <1>10
    <2>3. CASE d = b
        BY <2>1, <2>3, <1>10
    <2>4. CASE c # b /\ d # b
        BY <2>4, <1>10 DEF LedgerInv, RowsAreApart
    <2> QED
        BY <2>2, <2>3, <2>4
<1>12. FlushesFit'
    BY <1>10 DEF LedgerInv, FlushesFit
<1>13. CreatesTheFirst'
    BY <1>1 DEF LedgerInv, CreatesTheFirst
<1>14. CopiesAreCommitted'
    BY <1>1, <1>3 DEF LedgerInv, CopiesAreCommitted
<1> QED
    BY <1>2, <1>6, <1>7, <1>8, <1>9, <1>11, <1>12, <1>13, <1>14 DEF LedgerInv

-----------------------------------------------------------------------------
(* The steps                                                                *)

\* A new request's form, and those of one that failed.
LEMMA BlankForms ==
    /\ Copies \in CopyPair /\ Copies.profile = NoRow
    /\ [BlankBallot EXCEPT !.at = "error"] \in Ballot
    /\ [BlankBallot EXCEPT !.at = "error"].at = "error"
    /\ ~[BlankBallot EXCEPT !.at = "error"].creates
BY DEF Copies, CopyPair, BlankBallot, Ballot

\* A request that goes on keeps its vote and its lesson.
LEMMA GoesOn ==
    ASSUME LedgerTypeOK, NEW b \in Ballots, NEW l \in BallotPlaces, BallotAt(b, l)
    PROVE  /\ [ballot[b] EXCEPT !.at = l] \in Ballot
           /\ [ballot[b] EXCEPT !.at = l].at = l
           /\ [ballot[b] EXCEPT !.at = l].creates = ballot[b].creates
           /\ [ballot[b] EXCEPT !.at = l].vote = ballot[b].vote
           /\ [ballot[b] EXCEPT !.at = l].lesson = ballot[b].lesson
           /\ ballot' = [ballot EXCEPT ![b] = [ballot[b] EXCEPT !.at = l]]
<1>1. ballot[b] \in Ballot
    BY BallotIsTyped
<1>2. [ballot[b] EXCEPT !.at = l] \in Ballot
    BY <1>1 DEF Ballot, BallotPlaces
<1>3. ballot' = [ballot EXCEPT ![b] = [ballot[b] EXCEPT !.at = l]]
    BY DEF BallotAt, LedgerTypeOK
<1> QED
    BY <1>1, <1>2, <1>3 DEF Ballot

\* A request that loads the profile has the committed one.
LEMMA LoadsCommitted ==
    ASSUME LedgerInv, NEW b \in Ballots
    PROVE  /\ [mine[b] EXCEPT !.profile = profile] \in CopyPair
           /\ [mine[b] EXCEPT !.profile = profile].profile = profile
           /\ [mine[b] EXCEPT !.profile = profile].row = mine[b].row
           /\ profile # NoRow => profile.count \cup profile.taste \subseteq Saved
<1>1. mine[b] \in CopyPair /\ profile \in Profile \cup {NoRow}
    BY BallotIsTyped DEF LedgerInv, LedgerTypeOK
<1>2. ASSUME profile # NoRow
      PROVE  profile.count \cup profile.taste \subseteq Saved
    <2>1. profile.count \subseteq Ballots /\ profile.taste \subseteq Ballots
        BY <1>1, <1>2 DEF Profile
    <2> QED
        BY <2>1, <1>2 DEF LedgerInv, AllOrNothing, Columns
<1> QED
    BY <1>1, <1>2 DEF CopyPair

\* A rolled back request leaves the invariant.
LEMMA RollsBackStep ==
    ASSUME LedgerInv, NEW b \in Ballots, ballot[b].at # "saved", RollsBack(b)
    PROVE  LedgerInv'
<1> DEFINE r == [BlankBallot EXCEPT !.at = "error"]
<1>1. r \in Ballot /\ r.at = "error" /\ ~r.creates /\ Copies \in CopyPair /\ Copies.profile = NoRow
    BY BlankForms
<1>2. ballot' = [ballot EXCEPT ![b] = r] /\ mine' = [mine EXCEPT ![b] = Copies]
    BY DEF RollsBack
<1> HIDE DEF r
<1>3. ballot'[b] = r
    BY <1>1, <1>2, OneRequestMoves DEF LedgerInv
<1>4. ~LoadedBy(b)' /\ ~HoldsRow(b)'
    BY <1>1, <1>3 DEF LoadedBy, HoldsRow
<1>5. UNCHANGED <<ledger, profile, said, raced>>
    BY DEF RollsBack
<1> QED
    BY <1>1, <1>2, <1>4, <1>5, PrivateStep

\* A request arrives.
LEMMA ArrivesStep ==
    ASSUME LedgerInv, NEW b \in Ballots, BallotArrives(b)
    PROVE  LedgerInv'
<1>1. PICK vote \in {"up", "down", "none"}, lesson \in BOOLEAN :
          /\ vote = "none" => b \notin Thumbs /\ ~lesson
          /\ ballot' = [ballot EXCEPT ![b] =
                [at |-> IF b \in Thumbs THEN "profile" ELSE "row",
                 vote |-> vote, lesson |-> lesson, creates |-> FALSE]]
    BY DEF BallotArrives
<1> DEFINE r == [at |-> IF b \in Thumbs THEN "profile" ELSE "row",
                 vote |-> vote, lesson |-> lesson, creates |-> FALSE]
<1>2. /\ r \in Ballot /\ r.at = (IF b \in Thumbs THEN "profile" ELSE "row")
      /\ ~r.creates
    BY DEF Ballot
<1>3. ballot' = [ballot EXCEPT ![b] = r]
    BY <1>1
<1> HIDE DEF r
<1>4. mine[b] \in CopyPair /\ mine' = [mine EXCEPT ![b] = mine[b]]
    BY BallotIsTyped DEF LedgerInv, LedgerTypeOK, BallotArrives
<1>5. ballot'[b] = r
    BY <1>2, <1>3, <1>4, OneRequestMoves DEF LedgerInv
<1>6. ~LoadedBy(b)' /\ ~HoldsRow(b)'
    BY <1>2, <1>5 DEF LoadedBy, HoldsRow
<1>7. UNCHANGED <<ledger, profile, said, raced>> /\ ballot[b].at = "idle"
    BY DEF BallotArrives
<1>8. mine[b].profile # NoRow => mine[b].profile.count \cup mine[b].profile.taste \subseteq Saved
    BY DEF LedgerInv, CopiesAreCommitted
<1>9. r.at # "saved" /\ (r.at = "profile" => b \in Thumbs)
    BY <1>2
<1> QED
    BY <1>2, <1>3, <1>4, <1>6, <1>7, <1>8, <1>9, PrivateStep

\* A thumb loads the profile.
LEMMA LoadsProfileStep ==
    ASSUME LedgerInv, NEW b \in Ballots, LoadsProfile(b)
    PROVE  LedgerInv'
<1> DEFINE l == IF profile = NoRow THEN "creating" ELSE "row"
           r == [ballot[b] EXCEPT !.at = l]
           m == [mine[b] EXCEPT !.profile = profile]
<1>0. ballot[b].at = "profile" /\ b \in Thumbs /\ LedgerTypeOK
    BY DEF LoadsProfile, LedgerInv, ThumbsStart
<1>1. l \in BallotPlaces /\ BallotAt(b, l)
    BY DEF BallotPlaces, LoadsProfile
<1>2. /\ r \in Ballot /\ r.at = l /\ r.creates = ballot[b].creates
      /\ ballot' = [ballot EXCEPT ![b] = r]
    BY <1>0, <1>1, GoesOn
<1>3. /\ m \in CopyPair /\ m.profile = profile
      /\ profile # NoRow => profile.count \cup profile.taste \subseteq Saved
    BY LoadsCommitted
<1>4. mine' = [mine EXCEPT ![b] = m]
    BY <1>0 DEF LoadsProfile, LedgerTypeOK
<1> HIDE DEF r, m
<1>5. ballot'[b] = r /\ mine'[b] = m
    BY <1>0, <1>2, <1>3, <1>4, OneRequestMoves
<1>6. ~HoldsRow(b)'
    BY <1>0, <1>2, <1>5 DEF HoldsRow
<1>7. LoadedBy(b)' => m.profile # NoRow
    BY <1>0, <1>2, <1>3, <1>5 DEF LoadedBy
<1>8. r.creates => profile = NoRow
    BY <1>2 DEF LedgerInv, CreatesTheFirst
<1>9. r.at # "saved" /\ r.at # "profile" /\ ballot[b].at # "saved"
    BY <1>0, <1>2
<1>10. UNCHANGED <<ledger, profile, said, raced>>
    BY DEF LoadsProfile
<1> QED
    BY <1>2, <1>3, <1>4, <1>6, <1>7, <1>8, <1>9, <1>10, PrivateStep

\* The INSERT of a new profile.
LEMMA CreatesProfileStep ==
    ASSUME LedgerInv, NEW b \in Ballots, CreatesProfile(b)
    PROVE  LedgerInv'
<1>0. ballot[b].at = "creating" /\ LedgerTypeOK
    BY DEF CreatesProfile, LedgerInv
<1>1. CASE RollsBack(b)
    BY <1>0, <1>1, RollsBackStep
<1>2. CASE /\ profile = NoRow
           /\ mine' = [mine EXCEPT ![b].profile = [count |-> {}, taste |-> {}]]
           /\ ballot' = [ballot EXCEPT ![b].creates = TRUE,
                             ![b].at = IF b \in Thumbs THEN "row" ELSE "saving"]
           /\ UNCHANGED <<ledger, profile, said, raced>>
    <2> DEFINE l == IF b \in Thumbs THEN "row" ELSE "saving"
               p == [count |-> {}, taste |-> {}]
               r == [ballot[b] EXCEPT !.creates = TRUE, !.at = l]
               m == [mine[b] EXCEPT !.profile = p]
    <2>1. ballot[b] \in Ballot /\ mine[b] \in CopyPair
        BY <1>0, BallotIsTyped
    <2>2. l \in BallotPlaces /\ TRUE \in BOOLEAN
        BY DEF BallotPlaces
    <2>3. ballot' = [ballot EXCEPT ![b] = r]
        BY <1>0, <1>2 DEF LedgerTypeOK
    <2>4. r \in Ballot /\ r.at = l /\ r.vote = ballot[b].vote
        BY <2>1, <2>2 DEF Ballot, BallotPlaces
    <2>5. p \in Profile /\ p.count = {} /\ p.taste = {} /\ p # NoRow
        BY NoRowAssumption DEF Profile
    <2>6. mine' = [mine EXCEPT ![b] = m]
        BY <1>0, <1>2 DEF LedgerTypeOK
    <2> HIDE DEF p
    <2>7. m \in CopyPair /\ m.profile = p /\ m.row = mine[b].row
        BY <2>1, <2>5 DEF CopyPair
    <2> HIDE DEF r, m
    <2>8. ballot'[b] = r /\ mine'[b] = m
        BY <1>0, <2>3, <2>4, <2>6, <2>7, OneRequestMoves
    <2>9. HoldsRow(b)' => HoldsRow(b)
        BY <1>0, <2>4, <2>8 DEF HoldsRow
    <2>10. RowConflicts(b)' = RowConflicts(b)
        BY <1>2, <2>4, <2>7, <2>8 DEF RowConflicts
    <2>11. HoldsRow(b) => ~RowConflicts(b)
        BY DEF LedgerInv, FlushesFit
    <2>12. r.at # "saved" /\ r.at # "profile" /\ ballot[b].at # "saved"
        BY <1>0, <2>4
    <2>13. m.profile # NoRow /\ m.profile.count \cup m.profile.taste \subseteq Saved
        BY <2>5, <2>7
    <2> QED
        BY <1>2, <2>3, <2>4, <2>6, <2>7, <2>9, <2>10, <2>11, <2>12, <2>13, PrivateStep
<1> QED
    BY <1>1, <1>2 DEF CreatesProfile

\* record_outfit_vote loads the row.
LEMMA LoadsRowStep ==
    ASSUME LedgerInv, NEW b \in Ballots, LoadsRow(b)
    PROVE  LedgerInv'
<1> DEFINE r == [ballot[b] EXCEPT !.at = "reading"]
           m == [mine[b] EXCEPT !.row = ledger[Key[b]]]
<1>0. ballot[b].at = "row" /\ LedgerTypeOK /\ BallotAt(b, "reading")
    BY DEF LoadsRow, LedgerInv
<1>1. /\ r \in Ballot /\ r.at = "reading" /\ r.creates = ballot[b].creates
      /\ ballot' = [ballot EXCEPT ![b] = r]
    BY <1>0, GoesOn DEF BallotPlaces
<1>2. mine[b] \in CopyPair /\ ledger[Key[b]] \in Opinion \cup {NoRow}
    BY <1>0, BallotIsTyped
<1>3. m \in CopyPair /\ m.profile = mine[b].profile
    BY <1>2 DEF CopyPair
<1>4. mine' = [mine EXCEPT ![b] = m]
    BY <1>0 DEF LoadsRow, LedgerTypeOK
<1> HIDE DEF r, m
<1>5. ballot'[b] = r
    BY <1>0, <1>1, <1>3, <1>4, OneRequestMoves
<1>6. ~HoldsRow(b)' /\ (LoadedBy(b)' => LoadedBy(b))
    BY <1>0, <1>1, <1>5 DEF HoldsRow, LoadedBy
<1>7. LoadedBy(b)' => m.profile # NoRow
    BY <1>3, <1>6 DEF LedgerInv, ProfilesAreLoaded
<1>8. r.creates => profile = NoRow
    BY <1>1 DEF LedgerInv, CreatesTheFirst
<1>9. m.profile # NoRow => m.profile.count \cup m.profile.taste \subseteq Saved
    BY <1>3 DEF LedgerInv, CopiesAreCommitted
<1>10. UNCHANGED <<ledger, profile, said, raced>>
    BY DEF LoadsRow
<1> QED
    BY <1>0, <1>1, <1>3, <1>4, <1>6, <1>7, <1>8, <1>9, <1>10, PrivateStep

\* The flush of the row.
LEMMA WritesRowStep ==
    ASSUME LedgerInv, NEW b \in Ballots, WritesRow(b)
    PROVE  LedgerInv'
<1>0. ballot[b].at = "reading" /\ LedgerTypeOK /\ RowFree(b)
    BY DEF WritesRow, LedgerInv
<1>1. CASE RollsBack(b)
    BY <1>0, <1>1, RollsBackStep
<1>2. CASE /\ ~RowConflicts(b)
           /\ BallotAt(b, IF ballot[b].lesson THEN "learning" ELSE "saving")
           /\ UNCHANGED <<ledger, profile, mine, said, raced>>
    <2> DEFINE l == IF ballot[b].lesson THEN "learning" ELSE "saving"
               r == [ballot[b] EXCEPT !.at = l]
    <2>1. l \in BallotPlaces /\ BallotAt(b, l)
        BY <1>2 DEF BallotPlaces
    <2>2. /\ r \in Ballot /\ r.at = l /\ r.creates = ballot[b].creates
          /\ r.vote = ballot[b].vote /\ r.lesson = ballot[b].lesson
          /\ ballot' = [ballot EXCEPT ![b] = r]
        BY <1>0, <2>1, GoesOn
    <2>3. mine[b] \in CopyPair /\ mine' = [mine EXCEPT ![b] = mine[b]]
        BY <1>0, <1>2, BallotIsTyped DEF LedgerTypeOK
    <2> HIDE DEF r
    <2>4. ballot'[b] = r
        BY <1>0, <2>2, <2>3, OneRequestMoves
    <2>5. LoadedBy(b)' => LoadedBy(b)
        BY <1>0, <2>2, <2>4 DEF LoadedBy
    <2>6. LoadedBy(b)' => mine[b].profile # NoRow
        BY <2>5 DEF LedgerInv, ProfilesAreLoaded
    <2>7. ~RowConflicts(b)'
        BY <1>2, <2>2, <2>4 DEF RowConflicts
    <2>8. r.creates => profile = NoRow
        BY <2>2 DEF LedgerInv, CreatesTheFirst
    <2>9. mine[b].profile # NoRow => mine[b].profile.count \cup mine[b].profile.taste \subseteq Saved
        BY DEF LedgerInv, CopiesAreCommitted
    <2>10. r.at # "saved" /\ r.at # "profile" /\ ballot[b].at # "saved"
        BY <1>0, <2>2
    <2> QED
        BY <1>0, <1>2, <2>2, <2>3, <2>6, <2>7, <2>8, <2>9, <2>10, PrivateStep
<1> QED
    BY <1>1, <1>2 DEF WritesRow

\* apply_lessons_to_profile.
LEMMA LearnsStep ==
    ASSUME LedgerInv, NEW b \in Ballots, Learns(b)
    PROVE  LedgerInv'
<1> DEFINE l == IF b \notin Thumbs /\ profile = NoRow THEN "creating" ELSE "saving"
           r == [ballot[b] EXCEPT !.at = l]
           m == IF b \in Thumbs THEN mine[b] ELSE [mine[b] EXCEPT !.profile = profile]
<1>0. ballot[b].at = "learning" /\ LedgerTypeOK
    BY DEF Learns, LedgerInv
<1>1. l \in BallotPlaces /\ BallotAt(b, l)
    BY DEF BallotPlaces, Learns
<1>2. /\ r \in Ballot /\ r.at = l /\ r.creates = ballot[b].creates
      /\ r.vote = ballot[b].vote
      /\ ballot' = [ballot EXCEPT ![b] = r]
    BY <1>0, <1>1, GoesOn
<1>3. /\ m \in CopyPair /\ m.row = mine[b].row
      /\ m.profile = IF b \in Thumbs THEN mine[b].profile ELSE profile
      /\ profile # NoRow => profile.count \cup profile.taste \subseteq Saved
    BY <1>0, BallotIsTyped, LoadsCommitted
<1>4. mine' = [mine EXCEPT ![b] = m]
    BY <1>0 DEF Learns, LedgerTypeOK
<1> HIDE DEF r, m
<1>5. ballot'[b] = r /\ mine'[b] = m
    BY <1>0, <1>2, <1>3, <1>4, OneRequestMoves
<1>6. UNCHANGED <<ledger, profile, said, raced>>
    BY DEF Learns
<1>7. HoldsRow(b)
    BY <1>0 DEF HoldsRow
<1>8. ~RowConflicts(b)'
    BY <1>2, <1>3, <1>5, <1>6, <1>7 DEF RowConflicts, LedgerInv, FlushesFit
<1>9. LoadedBy(b)' => m.profile # NoRow
    <2>1. CASE b \in Thumbs
        BY <1>0, <1>3, <2>1 DEF LoadedBy, LedgerInv, ProfilesAreLoaded
    <2>2. CASE b \notin Thumbs
        BY <1>2, <1>3, <1>5, <2>2 DEF LoadedBy
    <2> QED
        BY <2>1, <2>2
<1>10. r.creates => profile = NoRow
    BY <1>2 DEF LedgerInv, CreatesTheFirst
<1>11. m.profile # NoRow => m.profile.count \cup m.profile.taste \subseteq Saved
    BY <1>3 DEF LedgerInv, CopiesAreCommitted
<1>12. r.at # "saved" /\ r.at # "profile" /\ ballot[b].at # "saved"
    BY <1>0, <1>2
<1> QED
    BY <1>2, <1>3, <1>4, <1>6, <1>7, <1>8, <1>9, <1>10, <1>11, <1>12, PrivateStep

\* What the commit of b writes into the profile, as columns.
LEMMA ColumnsGrow ==
    ASSUME LedgerInv, NEW b \in Ballots, ballot[b].at = "saving", profile' = SavedProfile(b)
    PROVE  /\ profile' \in Profile \cup {NoRow}
           /\ ~Touches(b) => Columns' = Columns
           /\ Touches(b) => /\ mine[b].profile \in Profile
                            /\ Columns'.count = IF b \in Thumbs THEN mine[b].profile.count \cup {b}
                                                ELSE Columns.count
                            /\ Columns'.taste = mine[b].profile.taste \cup {b}
<1>0. LedgerTypeOK
    BY DEF LedgerInv
<1>1. CASE ~Touches(b)
    BY <1>0, <1>1 DEF SavedProfile, Columns, LedgerTypeOK
<1>2. CASE Touches(b)
    <2>1. LoadedBy(b)
        BY <1>2 DEF Touches, LoadedBy
    <2>2. mine[b].profile \in Profile
        BY <1>0, <2>1, BallotIsTyped DEF LedgerInv, ProfilesAreLoaded
    <2>3. mine[b].profile.count \subseteq Ballots /\ mine[b].profile.taste \subseteq Ballots
        BY <2>2 DEF Profile
    <2>4. Columns.count \subseteq Ballots
        BY <1>0 DEF LedgerTypeOK, Columns, Profile
    <2> DEFINE n == IF b \in Thumbs THEN mine[b].profile.count \cup {b} ELSE Columns.count
               t == mine[b].profile.taste \cup {b}
    <2>5. profile' = [count |-> n, taste |-> t]
        BY <1>2 DEF SavedProfile, Columns
    <2>6. n \subseteq Ballots /\ t \subseteq Ballots
        BY <2>3, <2>4
    <2> HIDE DEF n, t
    <2>7. profile' \in Profile
        BY <2>5, <2>6 DEF Profile
    <2>8. profile' # NoRow
        BY <2>7, NoRowAssumption
    <2>9. Columns'.count = n /\ Columns'.taste = t
        BY <2>5, <2>8 DEF Columns
    <2> QED
        BY <1>2, <2>2, <2>7, <2>9 DEF n, t
<1> QED
    BY <1>1, <1>2

\* What the commit of b leaves in the row: b's opinion, none, or the row that
\* was there.
LEMMA RowAfterCommit ==
    ASSUME LedgerInv, NEW b \in Ballots, ballot[b].at = "saving"
    PROVE  /\ SavedRow(b) \in Opinion \cup {NoRow}
           /\ SavedRow(b) \in {NoRow, ledger[Key[b]]} \/ SavedRow(b).comment = b
           /\ mine[b].row = ledger[Key[b]] => SavedRow(b) = Said(b)
<1>1. /\ ballot[b].vote \in {"up", "down", "none"} /\ mine[b].row \in Opinion \cup {NoRow}
      /\ ledger[Key[b]] \in Opinion \cup {NoRow}
    BY BallotIsTyped DEF LedgerInv
<1>2. ~RowConflicts(b)
    BY DEF LedgerInv, FlushesFit, HoldsRow
<1>3. CASE ballot[b].vote = "none"
    BY <1>1, <1>3 DEF SavedRow, Said
<1>4. CASE ballot[b].vote # "none" /\ mine[b].row = NoRow
    <2>1. SavedRow(b) = [vote |-> ballot[b].vote, comment |-> b] /\ SavedRow(b) = Said(b)
        BY <1>4 DEF SavedRow, Said
    <2>2. [vote |-> ballot[b].vote, comment |-> b] \in Opinion
        BY <1>1, <1>4 DEF Opinion
    <2> QED
        BY <2>1, <2>2
<1>5. CASE ballot[b].vote # "none" /\ mine[b].row # NoRow
    <2> DEFINE v == IF mine[b].row.vote = ballot[b].vote THEN ledger[Key[b]].vote
                    ELSE ballot[b].vote
    <2>1. SavedRow(b) = [vote |-> v, comment |-> b]
        BY <1>5 DEF SavedRow
    <2>2. ledger[Key[b]] \in Opinion
        BY <1>1, <1>2, <1>5 DEF RowConflicts
    <2>3. v \in {"up", "down"}
        BY <1>1, <1>5, <2>2 DEF Opinion
    <2>4. [vote |-> v, comment |-> b] \in Opinion
        BY <2>3 DEF Opinion
    <2>5. mine[b].row = ledger[Key[b]] => v = ballot[b].vote
        OBVIOUS
    <2> HIDE DEF v
    <2> QED
        BY <1>5, <2>1, <2>4, <2>5 DEF Said
<1> QED
    BY <1>1, <1>3, <1>4, <1>5

\* The commit.
LEMMA SavesStep ==
    ASSUME LedgerInv, NEW b \in Ballots, Saves(b)
    PROVE  LedgerInv'
<1> DEFINE r == [ballot[b] EXCEPT !.at = "saved", !.creates = FALSE]
<1>0. LedgerTypeOK /\ ballot[b].at = "saving" /\ HoldsRow(b) /\ Key[b] \in Keys
    BY BallotIsTyped DEF LedgerInv, Saves, HoldsRow
<1>1. /\ ledger' = [ledger EXCEPT ![Key[b]] = SavedRow(b)] /\ profile' = SavedProfile(b)
      /\ said' = [said EXCEPT ![Key[b]] = Said(b)] /\ raced' = (raced \/ OutOfDate(b))
      /\ mine' = [mine EXCEPT ![b] = Copies] /\ (Touches(b) => ProfileFree(b))
    BY DEF Saves
<1>2. ballot' = [ballot EXCEPT ![b] = r]
    BY <1>0 DEF Saves, LedgerTypeOK
<1>3. ballot[b] \in Ballot /\ FALSE \in BOOLEAN /\ "saved" \in BallotPlaces
    BY <1>0, BallotIsTyped DEF BallotPlaces
<1>4. r \in Ballot /\ r.at = "saved" /\ ~r.creates /\ r.lesson = ballot[b].lesson
    BY <1>3 DEF Ballot, BallotPlaces
<1> HIDE DEF r
<1>5. /\ ballot' \in [Ballots -> Ballot] /\ mine' \in [Ballots -> CopyPair]
      /\ ballot'[b] = r /\ mine'[b] = Copies
      /\ \A c \in Ballots \ {b} : ballot'[c] = ballot[c] /\ mine'[c] = mine[c]
    BY <1>0, <1>1, <1>2, <1>4, BlankForms, OneRequestMoves
<1>6. Saved' = Saved \cup {b}
    BY <1>4, <1>5 DEF Saved
<1>7. \A c \in Ballots : Touches(c)' = Touches(c)
    BY <1>4, <1>5 DEF Touches
<1>8. /\ profile' \in Profile \cup {NoRow}
      /\ ~Touches(b) => Columns' = Columns
      /\ Touches(b) => /\ mine[b].profile \in Profile
                       /\ Columns'.count = IF b \in Thumbs THEN mine[b].profile.count \cup {b}
                                           ELSE Columns.count
                       /\ Columns'.taste = mine[b].profile.taste \cup {b}
    BY <1>0, <1>1, ColumnsGrow
<1>9. /\ SavedRow(b) \in Opinion \cup {NoRow}
      /\ SavedRow(b) \in {NoRow, ledger[Key[b]]} \/ SavedRow(b).comment = b
      /\ mine[b].row = ledger[Key[b]] => SavedRow(b) = Said(b)
    BY <1>0, RowAfterCommit
<1>10. /\ ledger'[Key[b]] = SavedRow(b)
       /\ \A k \in Keys \ {Key[b]} : ledger'[k] = ledger[k]
    BY <1>0, <1>1 DEF LedgerTypeOK
<1>11. LedgerTypeOK'
    <2>1. ledger' \in [Keys -> Opinion \cup {NoRow}]
        BY <1>0, <1>1, <1>9 DEF LedgerTypeOK
    <2>2. Said(b) \in Opinion \cup {NoRow}
        <3>1. ballot[b].vote \in {"up", "down", "none"}
            BY <1>0, BallotIsTyped
        <3> QED
            BY <3>1 DEF Said, Opinion
    <2>3. said' \in [Keys -> Opinion \cup {NoRow}]
        BY <1>0, <1>1, <2>2 DEF LedgerTypeOK
    <2>4. raced' \in BOOLEAN
        BY <1>0, <1>1 DEF LedgerTypeOK, OutOfDate
    <2> QED
        BY <1>5, <1>8, <2>1, <2>3, <2>4 DEF LedgerTypeOK, CopyPair
<1>12. AllOrNothing'
    <2> SUFFICES ASSUME NEW c \in Ballots \ Saved'
                 PROVE  /\ c \notin Columns'.count \cup Columns'.taste
                        /\ \A k \in Keys : ledger'[k] # NoRow => ledger'[k].comment # c
        BY DEF AllOrNothing
    <2>1. c # b /\ c \in Ballots \ Saved
        BY <1>6
    <2>2. c \notin Columns.count \cup Columns.taste
        BY <2>1 DEF LedgerInv, AllOrNothing
    <2>3. \A k \in Keys : ledger[k] # NoRow => ledger[k].comment # c
        BY <2>1 DEF LedgerInv, AllOrNothing
    <2>4. c \notin Columns'.count \cup Columns'.taste
        <3>1. CASE ~Touches(b)
            BY <1>8, <2>2, <3>1
        <3>2. CASE Touches(b)
            <4>1. mine[b].profile # NoRow
                BY <1>8, <3>2, NoRowAssumption
            <4>2. c \notin mine[b].profile.count \cup mine[b].profile.taste
                BY <2>1, <4>1 DEF LedgerInv, CopiesAreCommitted
            <4> QED
                BY <1>8, <2>1, <2>2, <3>2, <4>2
        <3> QED
            BY <3>1, <3>2
    <2>5. SavedRow(b) # NoRow => SavedRow(b).comment # c
        BY <1>0, <1>9, <2>1, <2>3
    <2>6. \A k \in Keys : ledger'[k] # NoRow => ledger'[k].comment # c
        BY <1>10, <2>3, <2>5
    <2> QED
        BY <2>4, <2>6
<1>13. OpinionsKept'
    <2> SUFFICES ASSUME ~raced'
                 PROVE  /\ ledger' = said'
                        /\ Columns'.count = Saved' \cap Thumbs
                        /\ Columns'.taste = {c \in Saved' : Touches(c)'}
        BY DEF OpinionsKept
    <2>1. ~raced /\ ~OutOfDate(b)
        BY <1>0, <1>1 DEF LedgerTypeOK
    <2>2. /\ ledger = said /\ Columns.count = Saved \cap Thumbs
          /\ Columns.taste = {c \in Saved : Touches(c)}
        BY <2>1 DEF LedgerInv, OpinionsKept
    <2>3. ledger' = said'
        BY <1>1, <1>9, <2>1, <2>2 DEF OutOfDate
    <2>4. ASSUME Touches(b)
          PROVE  mine[b].profile = Columns
        <3>1. mine[b].profile = IF ballot[b].creates THEN [count |-> {}, taste |-> {}] ELSE profile
            BY <2>1, <2>4 DEF OutOfDate
        <3>2. mine[b].profile # NoRow
            BY <1>8, <2>4, NoRowAssumption
        <3>3. ballot[b].creates => profile = NoRow
            BY DEF LedgerInv, CreatesTheFirst
        <3> QED
            BY <3>1, <3>2, <3>3 DEF Columns
    <2>5. {c \in Saved' : Touches(c)'} = {c \in Saved : Touches(c)} \cup {c \in {b} : Touches(c)}
        BY <1>6, <1>7 DEF Saved
    <2>6. CASE ~Touches(b)
        <3>1. b \notin Thumbs
            BY <2>6 DEF Touches
        <3> QED
            BY <1>6, <1>8, <2>2, <2>3, <2>5, <2>6, <3>1
    <2>7. CASE Touches(b)
        <3>1. Columns'.count = Saved' \cap Thumbs
            BY <1>6, <1>8, <2>2, <2>4, <2>7
        <3>2. Columns'.taste = {c \in Saved' : Touches(c)'}
            BY <1>8, <2>2, <2>4, <2>5, <2>7
        <3> QED
            BY <2>3, <3>1, <3>2
    <2> QED
        BY <2>6, <2>7
<1>14. ThumbsStart'
    BY <1>4, <1>5 DEF LedgerInv, ThumbsStart
<1>15. ProfilesAreLoaded'
    <2>1. ~LoadedBy(b)' /\ \A c \in Ballots \ {b} : LoadedBy(c)' = LoadedBy(c)
        BY <1>4, <1>5 DEF LoadedBy
    <2> QED
        BY <2>1, <1>5 DEF LedgerInv, ProfilesAreLoaded
<1>16. ~HoldsRow(b)' /\ \A c \in Ballots \ {b} : HoldsRow(c)' = HoldsRow(c)
    BY <1>4, <1>5 DEF HoldsRow
<1>17. RowsAreApart'
    BY <1>16 DEF LedgerInv, RowsAreApart
<1>18. FlushesFit'
    <2> SUFFICES ASSUME NEW c \in Ballots, HoldsRow(c)'
                 PROVE  ~RowConflicts(c)'
        BY DEF FlushesFit
    <2>1. c # b /\ HoldsRow(c)
        BY <1>16
    <2>2. Key[c] # Key[b]
        BY <1>0, <2>1 DEF LedgerInv, RowsAreApart
    <2>3. Key[c] \in Keys
        BY <1>0, BallotIsTyped
    <2>4. ledger'[Key[c]] = ledger[Key[c]]
        BY <1>10, <2>2, <2>3
    <2>5. ~RowConflicts(c)
        BY <2>1 DEF LedgerInv, FlushesFit
    <2>6. ballot'[c] = ballot[c] /\ mine'[c] = mine[c]
        BY <1>5, <2>1
    <2> QED
        BY <2>4, <2>5, <2>6 DEF RowConflicts
<1>19. CreatesTheFirst'
    <2> SUFFICES ASSUME NEW c \in Ballots, ballot'[c].creates
                 PROVE  profile' = NoRow
        BY DEF CreatesTheFirst
    <2>1. c # b /\ ballot[c].creates
        BY <1>4, <1>5
    <2>2. ~Touches(b)
        BY <1>1, <2>1 DEF ProfileFree, HoldsProfile
    <2>3. profile = NoRow
        BY <2>1 DEF LedgerInv, CreatesTheFirst
    <2> QED
        BY <1>1, <2>2, <2>3 DEF SavedProfile
<1>20. CopiesAreCommitted'
    BY <1>5, <1>6, BlankForms DEF LedgerInv, CopiesAreCommitted
<1> QED
    BY <1>11, <1>12, <1>13, <1>14, <1>15, <1>17, <1>18, <1>19, <1>20 DEF LedgerInv

\* The database or the process fails.
LEMMA FailsStep ==
    ASSUME LedgerInv, NEW b \in Ballots, BallotFails(b)
    PROVE  LedgerInv'
BY RollsBackStep DEF BallotFails

\* Nothing happens.
LEMMA LedgerStutter ==
    ASSUME LedgerInv, UNCHANGED ledgerVars
    PROVE  LedgerInv'
<1>1. LedgerTypeOK'
    BY DEF ledgerVars, LedgerInv, LedgerTypeOK
<1>2. Saved' = Saved /\ Columns' = Columns /\ \A b \in Ballots : Touches(b)' = Touches(b)
    BY DEF ledgerVars, Saved, Columns, Touches
<1>3. AllOrNothing' /\ OpinionsKept'
    <2>1. {b \in Saved : Touches(b)}' = {b \in Saved : Touches(b)}
        BY <1>2 DEF Saved
    <2> QED
        BY <1>2, <2>1 DEF ledgerVars, LedgerInv, AllOrNothing, OpinionsKept
<1>4. ThumbsStart' /\ ProfilesAreLoaded'
    BY DEF ledgerVars, LedgerInv, ThumbsStart, ProfilesAreLoaded, LoadedBy
<1>5. RowsAreApart' /\ FlushesFit'
    BY DEF ledgerVars, LedgerInv, RowsAreApart, FlushesFit, HoldsRow, RowConflicts
<1>6. CreatesTheFirst' /\ CopiesAreCommitted'
    BY <1>2 DEF ledgerVars, LedgerInv, CreatesTheFirst, CopiesAreCommitted
<1> QED
    BY <1>1, <1>3, <1>4, <1>5, <1>6 DEF LedgerInv

-----------------------------------------------------------------------------
(* The theorems                                                             *)

\* The invariant holds throughout, whatever the requests, voters and sources.
THEOREM LedgerInvariant == LedgerSpec => []LedgerInv
<1>1. LedgerInit => LedgerInv
    <2> SUFFICES ASSUME LedgerInit
                 PROVE  LedgerInv
        OBVIOUS
    <2>1. \A b \in Ballots : ballot[b] = BlankBallot /\ mine[b] = Copies
        BY DEF LedgerInit
    <2>2. BlankBallot \in Ballot /\ BlankBallot.at = "idle" /\ ~BlankBallot.creates
        BY DEF BlankBallot, Ballot
    <2>3. Copies \in CopyPair /\ Copies.profile = NoRow
        BY BlankForms
    <2>4. LedgerTypeOK
        BY <2>2, <2>3 DEF LedgerInit, LedgerTypeOK, CopyPair
    <2>5. Saved = {} /\ Columns = [count |-> {}, taste |-> {}]
        BY <2>1, <2>2 DEF LedgerInit, Saved, Columns
    <2>6. AllOrNothing
        BY <2>5 DEF LedgerInit, AllOrNothing
    <2>7. OpinionsKept
        BY <2>5 DEF LedgerInit, OpinionsKept
    <2>8. ThumbsStart /\ ProfilesAreLoaded
        BY <2>1, <2>2 DEF ThumbsStart, ProfilesAreLoaded, LoadedBy
    <2>9. RowsAreApart /\ FlushesFit
        BY <2>1, <2>2 DEF RowsAreApart, FlushesFit, HoldsRow
    <2>10. CreatesTheFirst
        BY <2>1, <2>2 DEF CreatesTheFirst
    <2>11. CopiesAreCommitted
        BY <2>1, <2>3 DEF CopiesAreCommitted
    <2> QED
        BY <2>4, <2>6, <2>7, <2>8, <2>9, <2>10, <2>11 DEF LedgerInv
<1>2. LedgerInv /\ [LedgerNext]_ledgerVars => LedgerInv'
    <2> SUFFICES ASSUME LedgerInv, [LedgerNext]_ledgerVars
                 PROVE  LedgerInv'
        OBVIOUS
    <2>1. CASE UNCHANGED ledgerVars
        BY <2>1, LedgerStutter
    <2>2. ASSUME NEW b \in Ballots, BallotArrives(b)
          PROVE  LedgerInv'
        BY <2>2, ArrivesStep
    <2>3. ASSUME NEW b \in Ballots, BallotProceeds(b)
          PROVE  LedgerInv'
        BY <2>3, LoadsProfileStep, CreatesProfileStep, LoadsRowStep, WritesRowStep,
           LearnsStep, SavesStep DEF BallotProceeds
    <2>4. ASSUME NEW b \in Ballots, BallotFails(b)
          PROVE  LedgerInv'
        BY <2>4, FailsStep
    <2> QED
        BY <2>1, <2>2, <2>3, <2>4 DEF LedgerNext
<1> QED
    BY <1>1, <1>2, PTL DEF LedgerSpec

\* Every row, copy and profile stays in its type: a commit never writes from a
\* profile the session has not loaded (behavior.py, styling.py vote_outfit).
THEOREM LedgerTypeCorrect == LedgerSpec => []LedgerTypeOK
BY LedgerInvariant, PTL DEF LedgerInv

\* The row and the profile of a request are committed together or not at all,
\* in every interleaving and with failures anywhere before the commit.
THEOREM VotesAreAtomic == LedgerSpec => []AllOrNothing
BY LedgerInvariant, PTL DEF LedgerInv

\* Until a request writes from what another has since replaced, each row says
\* its last opinion and the profile counts every vote and lesson once.
THEOREM OpinionsAreKept == LedgerSpec => []OpinionsKept
BY LedgerInvariant, PTL DEF LedgerInv

=============================================================================
