---------------------------- MODULE TasteLedger ----------------------------
(***************************************************************************)
(* Opinions on one member's outfit: thumbs on the styling page               *)
(* (vote_outfit) and star reviews (score_own_outfit), which write the ledger *)
(* of votes (styling/behavior.py, models/outfit_vote.py) and the learned     *)
(* StyleProfile in one transaction each.  Requests overlap: a comment is     *)
(* read by a model between loading the rows and writing them.                *)
(***************************************************************************)
EXTENDS FiniteSets

CONSTANTS
    Ballots,    \* requests
    Thumbs,     \* those from the styling page; the others are star reviews
    Key,        \* request -> its (voter, source)
    NoRow

ASSUME LedgerAssumption ==
    /\ Thumbs \subseteq Ballots
    /\ Key \in [Ballots -> {Key[b] : b \in Ballots}]
    /\ \A b \in Thumbs, c \in Ballots \ Thumbs : Key[b] # Key[c]

Keys == {Key[b] : b \in Ballots}

VARIABLES
    ledger,    \* committed OutfitVote rows
    profile,   \* the committed StyleProfile: the ballots in each column
    ballot,    \* the requests
    mine,      \* per request, its session's copies of the two rows
    said,      \* history: the row as the last committed request of a key meant it
    raced      \* history: a request wrote over what was committed since it read

ledgerVars == <<ledger, profile, ballot, mine, said, raced>>

\* vote: the row's vote and weight; comment: its comment and what follows from
\* it.  A ballot stands for the value it wrote.
Opinion == [vote : {"up", "down"}, comment : Ballots]

\* count: vote_count and boldness; taste: attribute_affinities.
Profile == [count : SUBSET Ballots, taste : SUBSET Ballots]

ASSUME NoRowAssumption == NoRow \notin Opinion \cup Profile

Ballot == [at : {"idle", "profile", "creating", "row", "reading", "learning", "saving",
                  "saved", "error"},
           vote : {"up", "down", "none"}, lesson : BOOLEAN, creates : BOOLEAN]

BlankBallot == [at |-> "idle", vote |-> "none", lesson |-> FALSE, creates |-> FALSE]
Copies == [row |-> NoRow, profile |-> NoRow]

LedgerInit ==
    /\ ledger = [k \in Keys |-> NoRow]
    /\ profile = NoRow
    /\ ballot = [b \in Ballots |-> BlankBallot]
    /\ mine = [b \in Ballots |-> Copies]
    /\ said = [k \in Keys |-> NoRow]
    /\ raced = FALSE

BallotAt(b, l) == ballot' = [ballot EXCEPT ![b].at = l]

\* Rows an open transaction has written; others wait for its end.
HoldsProfile(b) ==
    \/ ballot[b].creates
    \/ b \in Thumbs /\ ballot[b].at \in {"learning", "saving"}
HoldsRow(b) ==
    \/ ballot[b].at \in {"learning", "saving"}
    \/ b \notin Thumbs /\ ballot[b].at = "creating"
ProfileFree(b) == \A c \in Ballots \ {b} : ~HoldsProfile(c)
RowFree(b) == \A c \in Ballots \ {b} : Key[c] = Key[b] => ~HoldsRow(c)

\* A mutant of RollsBack: the session is not closed.
LeavesOpen(b) ==
    /\ ballot' = [ballot EXCEPT ![b].at = "error"]
    /\ mine' = [mine EXCEPT ![b] = Copies]
    /\ UNCHANGED <<ledger, profile, said, raced>>

\* The exception rolls everything back; the client gets an error.
RollsBack(b) ==
    /\ ballot' = [ballot EXCEPT ![b] = [BlankBallot EXCEPT !.at = "error"]]
    /\ mine' = [mine EXCEPT ![b] = Copies]
    /\ UNCHANGED <<ledger, profile, said, raced>>

-----------------------------------------------------------------------------

\* A 3-star review is no opinion: vote "none".  Lessons come with a comment.
BallotArrives(b) ==
    /\ ballot[b].at = "idle"
    /\ \E vote \in {"up", "down", "none"}, lesson \in BOOLEAN :
          /\ vote = "none" => b \notin Thumbs /\ ~lesson
          /\ ballot' = [ballot EXCEPT ![b] =
                [at |-> IF b \in Thumbs THEN "profile" ELSE "row",
                 vote |-> vote, lesson |-> lesson, creates |-> FALSE]]
    /\ UNCHANGED <<ledger, profile, mine, said, raced>>

LoadsProfile(b) ==
    /\ ballot[b].at = "profile"
    /\ mine' = [mine EXCEPT ![b].profile = profile]
    /\ BallotAt(b, IF profile = NoRow THEN "creating" ELSE "row")
    /\ UNCHANGED <<ledger, profile, said, raced>>

\* The INSERT of a new profile waits for another's, and fails if that commits.
CreatesProfile(b) ==
    /\ ballot[b].at = "creating"
    /\ ProfileFree(b)
    /\ \/ /\ profile # NoRow
          /\ RollsBack(b)
       \/ /\ profile = NoRow
          /\ mine' = [mine EXCEPT ![b].profile = [count |-> {}, taste |-> {}]]
          /\ ballot' = [ballot EXCEPT ![b].creates = TRUE,
                            ![b].at = IF b \in Thumbs THEN "row" ELSE "saving"]
          /\ UNCHANGED <<ledger, profile, said, raced>>

\* record_outfit_vote: the row of this voter and source, then the comment is read.
LoadsRow(b) ==
    /\ ballot[b].at = "row"
    /\ mine' = [mine EXCEPT ![b].row = ledger[Key[b]]]
    /\ BallotAt(b, "reading")
    /\ UNCHANGED <<ledger, profile, said, raced>>

\* The flush: an INSERT that finds a row by now and an UPDATE that finds none
\* both fail; a DELETE that finds none does not.
RowConflicts(b) ==
    /\ ballot[b].vote # "none"
    /\ (mine[b].row = NoRow) # (ledger[Key[b]] = NoRow)

\* A mutant of WritesRow: record_outfit_vote commits the row itself.
CommitsRow(b) ==
    /\ ballot[b].at = "reading"
    /\ RowFree(b) /\ (b \in Thumbs => ProfileFree(b))
    /\ ~RowConflicts(b)
    /\ ledger' = [ledger EXCEPT ![Key[b]] =
          IF ballot[b].vote = "none" THEN NoRow ELSE [vote |-> ballot[b].vote, comment |-> b]]
    /\ BallotAt(b, IF ballot[b].lesson THEN "learning" ELSE "saving")
    /\ UNCHANGED <<profile, mine, said, raced>>

\* A thumb's transaction flushes its profile with the row.
WritesRow(b) ==
    /\ ballot[b].at = "reading"
    /\ RowFree(b) /\ (b \in Thumbs => ProfileFree(b))
    /\ \/ RowConflicts(b) /\ RollsBack(b)
       \/ /\ ~RowConflicts(b)
          /\ BallotAt(b, IF ballot[b].lesson THEN "learning" ELSE "saving")
          /\ UNCHANGED <<ledger, profile, mine, said, raced>>

\* apply_lessons_to_profile: a thumb goes on with the profile it loaded.
Learns(b) ==
    /\ ballot[b].at = "learning"
    /\ IF b \in Thumbs THEN BallotAt(b, "saving") /\ UNCHANGED mine
       ELSE /\ mine' = [mine EXCEPT ![b].profile = profile]
            /\ BallotAt(b, IF profile = NoRow THEN "creating" ELSE "saving")
    /\ UNCHANGED <<ledger, profile, said, raced>>

\* A mutant of SavedRow: an existing row keeps its vote.
SavesCommentOnly(b) ==
    IF ballot[b].vote = "none" THEN NoRow
    ELSE [vote |-> IF mine[b].row = NoRow THEN ballot[b].vote ELSE mine[b].row.vote, comment |-> b]

\* Only the columns that differ from the loaded copy are written; a withdrawal
\* that found no row deletes none.
SavedRow(b) ==
    IF ballot[b].vote = "none" THEN IF mine[b].row = NoRow THEN ledger[Key[b]] ELSE NoRow
    ELSE IF mine[b].row = NoRow THEN [vote |-> ballot[b].vote, comment |-> b]
    ELSE [vote |-> IF mine[b].row.vote = ballot[b].vote THEN ledger[Key[b]].vote
                   ELSE ballot[b].vote,
          comment |-> b]

Touches(b) == b \in Thumbs \/ ballot[b].lesson
SavedProfile(b) ==
    IF ~Touches(b) THEN profile
    ELSE [count |-> IF b \in Thumbs THEN mine[b].profile.count \cup {b}
                    ELSE IF profile = NoRow THEN {} ELSE profile.count,
          taste |-> mine[b].profile.taste \cup {b}]

\* What is written was read before another request's commit.
OutOfDate(b) ==
    \/ mine[b].row # ledger[Key[b]]
    \/ /\ Touches(b)
       /\ mine[b].profile # IF ballot[b].creates THEN [count |-> {}, taste |-> {}] ELSE profile

\* What the row of this key should say from now on.
Said(b) ==
    IF ballot[b].vote = "none" THEN NoRow ELSE [vote |-> ballot[b].vote, comment |-> b]

\* The commit; a review's lessons are flushed just before it.
Saves(b) ==
    /\ ballot[b].at = "saving"
    /\ Touches(b) => ProfileFree(b)
    /\ ledger' = [ledger EXCEPT ![Key[b]] = SavedRow(b)]
    /\ profile' = SavedProfile(b)
    /\ said' = [said EXCEPT ![Key[b]] = Said(b)]
    /\ raced' = (raced \/ OutOfDate(b))
    /\ ballot' = [ballot EXCEPT ![b].at = "saved", ![b].creates = FALSE]
    /\ mine' = [mine EXCEPT ![b] = Copies]

\* The database or the process fails before the commit.
BallotFails(b) ==
    /\ ballot[b].at \notin {"idle", "saved", "error"}
    /\ RollsBack(b)

BallotProceeds(b) ==
    \/ LoadsProfile(b) \/ CreatesProfile(b) \/ LoadsRow(b)
    \/ WritesRow(b) \/ Learns(b) \/ Saves(b)

LedgerNext == \E b \in Ballots : BallotArrives(b) \/ BallotProceeds(b) \/ BallotFails(b)

LedgerSpec == LedgerInit /\ [][LedgerNext]_ledgerVars

\* Requests run.
LedgerFairness == \A b \in Ballots : WF_ledgerVars(BallotProceeds(b))

-----------------------------------------------------------------------------
(* Properties                                                               *)

LedgerTypeOK ==
    /\ ledger \in [Keys -> Opinion \cup {NoRow}]
    /\ profile \in Profile \cup {NoRow}
    /\ ballot \in [Ballots -> Ballot]
    /\ mine \in [Ballots -> [row : Opinion \cup {NoRow}, profile : Profile \cup {NoRow}]]
    /\ said \in [Keys -> Opinion \cup {NoRow}]
    /\ raced \in BOOLEAN

Saved == {b \in Ballots : ballot[b].at = "saved"}
Columns == IF profile = NoRow THEN [count |-> {}, taste |-> {}] ELSE profile

\* "Rows are upserted per (outfit, voter, source) so re-clicking flips an
\* opinion instead of stacking it": requests that do not overlap leave the row
\* with all of the last opinion and the profile with every vote and lesson.
OpinionsKept ==
    ~raced => /\ ledger = said
              /\ Columns.count = Saved \cap Thumbs
              /\ Columns.taste = {b \in Saved : Touches(b)}

\* The row and the profile are written together or not at all: a request that
\* got an error, or has not committed, is in neither.
AllOrNothing ==
    \A b \in Ballots \ Saved :
        /\ b \notin Columns.count \cup Columns.taste
        /\ \A k \in Keys : ledger[k] # NoRow => ledger[k].comment # b

\* Requests wait for each other's rows, never in a circle.
EveryBallotAnswered ==
    \A b \in Ballots : ballot[b].at # "idle" ~> ballot[b].at \in {"saved", "error"}

=============================================================================
