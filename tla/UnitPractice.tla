---------------------------- MODULE UnitPractice ----------------------------
(***************************************************************************)
(* A study unit in the tabs of one browser.  A run of the unit is a row of *)
(* cards, kept in IndexedDB; what is typed on a card is kept in local      *)
(* storage as a draft; choosing a self-evaluation commits the answer to    *)
(* the outbox, which delivers it later.  A tab can be closed or reloaded   *)
(* at any moment, and keeps in memory the run it saw when it opened.       *)
(*                                                                         *)
(* Runs are numbered as they are issued; every card of a run is an         *)
(* instance of its own.                                                    *)
(***************************************************************************)
EXTENDS Integers, FiniteSets, Sequences

CONSTANTS
    Tab,
    Word,      \* what may be typed
    Cards,     \* number of cards of a run
    MaxRuns,   \* bound on the runs issued
    None

ASSUME UnitAssumption ==
    Cards \in Nat \ {0} /\ MaxRuns \in Nat

VARIABLES
    kept,      \* the run in IndexedDB, 0 if there is none
    issued,    \* number of runs issued
    outbox,    \* the answer of every card, or None
    drafts,    \* the draft of every card
    tab        \* the memory of every tab

storage == <<kept, issued>>
vars    == <<kept, issued, outbox, drafts, tab>>

Run  == 1..MaxRuns
Card == 1..Cards

(* A text is a word together with the card it was typed on.                *)
Blank       == << >>
Typed(r, c) == {<<r, c, w>> : w \in Word}
Text        == UNION {Typed(r, c) : r \in Run, c \in Card}

NoDraft == [text |-> Blank, revealed |-> FALSE]
Draft   == [text : Text \cup {Blank}, revealed : BOOLEAN]

Answer == [by : Tab, text : Text, accepted : BOOLEAN]

ASSUME NoneAssumption == None \notin Answer

Closed == [pc |-> "closed", stored |-> 0, at |-> 1, input |-> NoDraft, unsaved |-> FALSE, answer |-> None]

Init ==
    /\ kept = 0 /\ issued = 0
    /\ outbox = [r \in Run |-> [c \in Card |-> None]]
    /\ drafts = [r \in Run |-> [c \in Card |-> NoDraft]]
    /\ tab = [t \in Tab |-> Closed]

-----------------------------------------------------------------------------
(* Progress comes from the outbox alone; a run is finished when every      *)
(* answer was accepted.                                                    *)

Answered(r) == Cardinality({c \in Card : \A d \in 1..c : outbox[r][d] # None})

Finished(r) ==
    \A c \in Card : outbox[r][c] # None /\ outbox[r][c].accepted

-----------------------------------------------------------------------------
(* The overview.                                                           *)

Becomes(t, s) == tab' = [tab EXCEPT ![t] = s]

Mount(t) ==
    /\ tab[t].pc = "closed"
    /\ Becomes(t, [Closed EXCEPT !.pc = "overview", !.stored = kept])
    /\ UNCHANGED <<storage, outbox, drafts>>

(* Closed, reloaded or killed; what was not stored is lost.                *)
Leave(t) ==
    /\ tab[t].pc # "closed"
    /\ Becomes(t, Closed)
    /\ UNCHANGED <<storage, outbox, drafts>>

(* A run may be started over only when the one before is done.             *)
MayStart(t) == tab[t].stored # 0 => Finished(tab[t].stored)

Start(t) ==
    /\ tab[t].pc = "overview" /\ MayStart(t)
    /\ Becomes(t, [tab[t] EXCEPT !.pc = "starting"])
    /\ UNCHANGED <<storage, outbox, drafts>>

(* The cards arrive, and the run is stored before the first is shown.      *)
Issue(t) ==
    /\ tab[t].pc = "starting" /\ issued < MaxRuns
    /\ issued' = issued + 1 /\ kept' = issued + 1
    /\ Becomes(t, [Closed EXCEPT !.pc = "card", !.stored = issued + 1])
    /\ UNCHANGED <<outbox, drafts>>

StartFails(t) ==
    /\ tab[t].pc = "starting"
    /\ Becomes(t, [tab[t] EXCEPT !.pc = "overview"])
    /\ UNCHANGED <<storage, outbox, drafts>>

(* The first card without an answer, with its draft.                       *)
Resume(t) ==
    /\ tab[t].pc = "overview" /\ tab[t].stored # 0
    /\ LET r  == tab[t].stored
           at == Answered(r) + 1
       IN  Becomes(t, IF at > Cards THEN [tab[t] EXCEPT !.pc = "finished", !.at = Cards]
                      ELSE [tab[t] EXCEPT !.pc = "card", !.at = at, !.input = drafts[r][at]])
    /\ UNCHANGED <<storage, outbox, drafts>>

Exit(t) ==
    /\ tab[t].pc \in {"card", "finished"}
    /\ Becomes(t, [Closed EXCEPT !.pc = "overview", !.stored = tab[t].stored])
    /\ UNCHANGED <<storage, outbox, drafts>>

-----------------------------------------------------------------------------
(* A card.                                                                 *)

(* The input is put on the screen, and written in the same event or not.   *)
Input(t, input) ==
    LET r == tab[t].stored
        c == tab[t].at
    IN  \/ /\ drafts' = [drafts EXCEPT ![r][c] = input]
           /\ Becomes(t, [tab[t] EXCEPT !.input = input, !.unsaved = FALSE])
        \/ /\ UNCHANGED drafts
           /\ Becomes(t, [tab[t] EXCEPT !.input = input, !.unsaved = TRUE])

Type(t, text) ==
    /\ tab[t].pc = "card" /\ ~tab[t].input.revealed
    /\ Input(t, [text |-> text, revealed |-> FALSE])
    /\ UNCHANGED <<storage, outbox>>

Reveal(t) ==
    /\ tab[t].pc = "card" /\ ~tab[t].input.revealed /\ tab[t].input.text # Blank
    /\ Input(t, [tab[t].input EXCEPT !.revealed = TRUE])
    /\ UNCHANGED <<storage, outbox>>

SaveAgain(t) ==
    /\ tab[t].pc = "card" /\ tab[t].unsaved
    /\ Input(t, tab[t].input)
    /\ UNCHANGED <<storage, outbox>>

(* A stored answer of the card is taken as it is.                          *)
Grade(t) ==
    /\ tab[t].pc = "card" /\ tab[t].input.revealed
    /\ LET found == outbox[tab[t].stored][tab[t].at]
       IN  Becomes(t, [tab[t] EXCEPT
             !.pc = IF found = None THEN "commit" ELSE "clear",
             !.answer = IF found = None THEN [by |-> t, text |-> tab[t].input.text]
                        ELSE [by |-> found.by, text |-> found.text]])
    /\ UNCHANGED <<storage, outbox, drafts>>

(* The storage refuses a second answer of a card.                          *)
Stores_LastOne(t) ==
    outbox' = [outbox EXCEPT ![tab[t].stored][tab[t].at] =
                  [by |-> t, text |-> tab[t].answer.text, accepted |-> FALSE]]

Stores(t) ==
    /\ outbox[tab[t].stored][tab[t].at] = None
    /\ outbox' = [outbox EXCEPT ![tab[t].stored][tab[t].at] =
                     [by |-> t, text |-> tab[t].answer.text, accepted |-> FALSE]]

Commit(t) ==
    /\ tab[t].pc = "commit"
    /\ Stores(t)
    /\ Becomes(t, [tab[t] EXCEPT !.pc = "clear"])
    /\ UNCHANGED <<storage, drafts>>

(* Another tab was first, or the storage fails: the card stays.            *)
CommitFails_Unseen(t) ==
    /\ tab[t].pc = "commit"
    /\ Becomes(t, [tab[t] EXCEPT !.pc = "clear"])
    /\ UNCHANGED <<storage, outbox, drafts>>

CommitFails(t) ==
    /\ tab[t].pc = "commit"
    /\ Becomes(t, [tab[t] EXCEPT !.pc = "card", !.answer = None])
    /\ UNCHANGED <<storage, outbox, drafts>>

(* The draft is removed only now; it may survive.                          *)
Clear(t) ==
    /\ tab[t].pc = "clear"
    /\ drafts' \in {drafts, [drafts EXCEPT ![tab[t].stored][tab[t].at] = NoDraft]}
    /\ Becomes(t, [tab[t] EXCEPT !.pc = "send"])
    /\ UNCHANGED <<storage, outbox>>

NextCard_KeepsInput(t) ==
    IF tab[t].at = Cards THEN [tab[t] EXCEPT !.pc = "finished", !.answer = None]
    ELSE [tab[t] EXCEPT !.pc = "card", !.at = @ + 1, !.input.revealed = FALSE, !.answer = None]

NextCard(t) ==
    IF tab[t].at = Cards THEN [Closed EXCEPT !.pc = "finished", !.stored = tab[t].stored, !.at = Cards]
    ELSE [Closed EXCEPT !.pc = "card", !.stored = tab[t].stored, !.at = tab[t].at + 1]

(* Delivered or to be delivered, the next card follows; or the outcome is  *)
(* not known and the card stays.                                           *)
Sent(t) ==
    /\ tab[t].pc = "send"
    /\ \/ Becomes(t, NextCard(t))
       \/ Becomes(t, [tab[t] EXCEPT !.pc = "card", !.answer = None])
    /\ UNCHANGED <<storage, outbox, drafts>>

(* Any page of the browser may deliver an answer, at any time.             *)
Deliver(r, c) ==
    /\ outbox[r][c] # None
    /\ ~outbox[r][c].accepted
    /\ outbox' = [outbox EXCEPT ![r][c].accepted = TRUE]
    /\ UNCHANGED <<storage, drafts, tab>>

Next ==
    \/ \E t \in Tab :
          \/ Mount(t) \/ Leave(t) \/ Start(t) \/ Issue(t) \/ StartFails(t)
          \/ Resume(t) \/ Exit(t)
          \/ (\E text \in Typed(tab[t].stored, tab[t].at) \cup {Blank} : Type(t, text)) \/ Reveal(t) \/ SaveAgain(t)
          \/ Grade(t) \/ Commit(t) \/ CommitFails(t) \/ Clear(t) \/ Sent(t)
    \/ \E r \in Run, c \in Card : Deliver(r, c)

Spec == Init /\ [][Next]_vars

-----------------------------------------------------------------------------
(* Types; a tab is never past the last card of its run.                    *)
PracticeTypeOK ==
    /\ kept \in 0..MaxRuns /\ issued \in 0..MaxRuns
    /\ outbox \in [Run -> [Card -> Answer \cup {None}]]
    /\ drafts \in [Run -> [Card -> Draft]]
    /\ \A t \in Tab : tab[t].at \in Card /\ tab[t].input \in Draft

(* A run is replaced by a new one only when every answer of it was         *)
(* accepted (docs/STUDY_UNITS.md:43).                                      *)
UnfinishedIsKept == [][kept' # kept /\ kept # 0 => Finished(kept)]_vars

(* An answer, and what is on the screen, was typed on that very card of    *)
(* that very run.                                                          *)
TextIsOfTheCard ==
    /\ \A r \in Run, c \in Card : outbox[r][c] # None => outbox[r][c].text \in Typed(r, c)
    /\ \A t \in Tab : tab[t].pc = "card" =>
           tab[t].input.text \in Typed(tab[t].stored, tab[t].at) \cup {Blank}

(* An answer is never replaced, whatever another tab graded meanwhile.     *)
AnswersAreFinal ==
    [][\A r \in Run, c \in Card : outbox[r][c] # None =>
          outbox'[r][c] \in {outbox[r][c], [outbox[r][c] EXCEPT !.accepted = TRUE]}]_vars

(* The answer a tab reports when it goes on is the stored one, even if     *)
(* another tab gave it.                                                    *)
ResultIsStored ==
    \A t \in Tab : tab[t].pc \in {"clear", "send"} =>
        LET a == outbox[tab[t].stored][tab[t].at]
        IN  a # None /\ tab[t].answer = [by |-> a.by, text |-> a.text]

(* No tab is past a card that has no answer.                               *)
NoCardIsSkipped ==
    \A t \in Tab : tab[t].pc \in {"card", "commit", "clear", "send"} =>
        \A c \in 1..(tab[t].at - 1) : outbox[tab[t].stored][c] # None
=============================================================================
