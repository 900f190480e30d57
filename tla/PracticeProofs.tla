--------------------------- MODULE PracticeProofs ---------------------------
(***************************************************************************)
(* For any number of tabs, runs, cards and words: a card has one answer    *)
(* for good, it was typed on that card, a tab goes on with the answer that *)
(* is stored, and no tab is past a card without one.                       *)
(*                                                                         *)
(* The invariant is about one tab at a time and the answers it can see,    *)
(* since a tab is disturbed by another only through the outbox, and the    *)
(* outbox only grows.                                                      *)
(*                                                                         *)
(* Then, for any syncs, epochs and histories of the server, no sync takes  *)
(* the mirror back; for any requests and deployments, a card is an issued  *)
(* instance of archived content, and a failure costs what it must; for any *)
(* exercises and edits, a release is its revisions in their order.         *)
(***************************************************************************)
EXTENDS Practice, FiniteSetTheorems, TLAPS

OnCard   == {"card", "commit", "clear", "send"}
Screen   == OnCard \cup {"closed", "overview", "starting", "finished"}
Graded   == [by : Tab, text : Text]
TabState == [pc : Screen, stored : 0..MaxRuns, at : Card, input : Draft,
             unsaved : BOOLEAN, answer : Graded \cup {None}]

Outbox == [Run -> [Card -> Answer \cup {None}]]

OfCard(r, c, d) ==
    /\ d.text \in Typed(r, c) \cup {Blank}
    /\ d.revealed => d.text # Blank

(* What holds of the memory s of tab t when the outbox is o.               *)
Good(t, s, o) ==
    /\ s \in TabState
    /\ s.pc \in OnCard \cup {"finished"} => s.stored \in Run
    /\ s.pc \in OnCard => OfCard(s.stored, s.at, s.input)
    /\ s.pc = "commit" => s.input.revealed /\ s.answer = [by |-> t, text |-> s.input.text]
    /\ s.pc \in {"clear", "send"} =>
          /\ o[s.stored][s.at] # None
          /\ s.answer = [by |-> o[s.stored][s.at].by, text |-> o[s.stored][s.at].text]
    /\ s.pc \in OnCard => \A c \in 1..(s.at - 1) : o[s.stored][c] # None

Grows(o, o2) ==
    \A r \in Run, c \in Card : o[r][c] # None =>
        o2[r][c] # None /\ o2[r][c].by = o[r][c].by /\ o2[r][c].text = o[r][c].text

StoresOK ==
    /\ kept \in 0..MaxRuns /\ issued \in 0..MaxRuns
    /\ outbox \in Outbox
    /\ drafts \in [Run -> [Card -> Draft]]
    /\ \A r \in Run, c \in Card : OfCard(r, c, drafts[r][c])
    /\ \A r \in Run, c \in Card : outbox[r][c] # None => outbox[r][c].text \in Typed(r, c)

PracticeInv ==
    /\ StoresOK
    /\ tab \in [Tab -> TabState]
    /\ \A t \in Tab : Good(t, tab[t], outbox)

-----------------------------------------------------------------------------
LEMMA TypedIsText == \A r \in Run, c \in Card : Typed(r, c) \subseteq Text
BY DEF Text

LEMMA FirstCard == 1 \in Card /\ Card \subseteq Nat /\ Cards \in Nat /\ MaxRuns \in Nat
BY UnitAssumption DEF Card

LEMMA NoDraftIsDraft == NoDraft \in Draft /\ \A r \in Run, c \in Card : OfCard(r, c, NoDraft)
BY DEF NoDraft, Draft, OfCard

LEMMA ClosedIsGood == Closed \in TabState /\ \A t \in Tab : \A o \in Outbox : Good(t, Closed, o)
<1>1. Closed \in TabState
  BY FirstCard, NoDraftIsDraft DEF Closed, TabState, Screen, OnCard
<1> QED
  BY <1>1 DEF Good, Closed, OnCard

LEMMA GoodStays ==
    ASSUME NEW t \in Tab, NEW s, NEW o \in Outbox, NEW o2 \in Outbox, Good(t, s, o), Grows(o, o2)
    PROVE  Good(t, s, o2)
<1>1. s \in TabState /\ s.at \in Card /\ 1..(s.at - 1) \subseteq Card
  BY FirstCard DEF Good, TabState, Card
<1>2. s.pc \in OnCard => s.stored \in Run
  BY DEF Good
<1>3. s.pc \in {"clear", "send"} => s.pc \in OnCard
  BY DEF OnCard
<1>4. s.pc \in OnCard => \A c \in 1..(s.at - 1) : o2[s.stored][c] # None
  BY <1>1, <1>2 DEF Good, Grows
<1>5. s.pc \in {"clear", "send"} =>
          /\ o2[s.stored][s.at] # None
          /\ s.answer = [by |-> o2[s.stored][s.at].by, text |-> o2[s.stored][s.at].text]
  BY <1>1, <1>2, <1>3 DEF Good, Grows
<1> QED
  BY <1>4, <1>5 DEF Good

(* The cards before the one a run resumes at are answered.                 *)
LEMMA ResumesAfterAnswers ==
    ASSUME NEW r \in Run, StoresOK
    PROVE  /\ Answered(r) \in 0..Cards
           /\ \A c \in 1..Answered(r) : c \in Card /\ outbox[r][c] # None
<1> DEFINE S == {c \in Card : \A d \in 1..c : outbox[r][d] # None}
<1>1. IsFiniteSet(Card) /\ Cardinality(Card) = Cards
  BY FirstCard, FS_Interval, UnitAssumption DEF Card
<1>2. IsFiniteSet(S) /\ Cardinality(S) <= Cards /\ Cardinality(S) \in Nat
  BY <1>1, FS_Subset, FS_CardinalityType
<1>3. Answered(r) = Cardinality(S)
  BY DEF Answered
<1>4. ASSUME NEW c \in 1..Cardinality(S) PROVE c \in S
  <2>1. SUFFICES ASSUME c \notin S PROVE FALSE
    OBVIOUS
  <2>2. c \in Card /\ c \in Nat
    BY <1>2, FirstCard DEF Card
  <2>3. S \subseteq 1..(c - 1)
    <3>1. SUFFICES ASSUME NEW e \in S, e >= c PROVE FALSE
      BY <2>2 DEF Card
    <3>2. \A d \in 1..c : d \in 1..e
      BY <3>1, <2>2 DEF Card
    <3> QED
      BY <2>1, <2>2, <3>1, <3>2
  <2>4. IsFiniteSet(1..(c - 1)) /\ Cardinality(1..(c - 1)) = c - 1
    BY <2>2, FS_Interval
  <2>5. Cardinality(S) <= c - 1
    BY <2>3, <2>4, FS_Subset
  <2> QED
    BY <1>2, <2>2, <2>5
<1>5. \A c \in S : c \in Card /\ outbox[r][c] # None
  BY DEF Card
<1> QED
  BY <1>2, <1>3, <1>4, <1>5, FirstCard

-----------------------------------------------------------------------------
(* The memory of the tab that moves.                                       *)

LEMMA MovesAlone ==
    ASSUME PracticeInv, StoresOK', Grows(outbox, outbox'),
           NEW t \in Tab, NEW s, Becomes(t, s), Good(t, s, outbox')
    PROVE  PracticeInv'
<1>1. outbox \in Outbox /\ outbox' \in Outbox
  BY DEF PracticeInv, StoresOK
<1>2. s \in TabState
  BY DEF Good
<1>3. tab' \in [Tab -> TabState] /\ tab'[t] = s /\ \A u \in Tab \ {t} : tab'[u] = tab[u]
  BY <1>2 DEF Becomes, PracticeInv
<1>4. \A u \in Tab \ {t} : Good(u, tab[u], outbox')
  BY <1>1, GoodStays DEF PracticeInv
<1>5. \A u \in Tab : Good(u, tab'[u], outbox')
  BY <1>3, <1>4
<1>6. (\A u \in Tab : Good(u, tab[u], outbox))'
  BY <1>5 DEF Good, OfCard
<1> QED
  BY <1>3, <1>6 DEF PracticeInv

LEMMA OutboxKept == outbox' = outbox => Grows(outbox, outbox')
BY DEF Grows

LEMMA OverviewMoves ==
    ASSUME PracticeInv, NEW t \in Tab,
           Mount(t) \/ Leave(t) \/ Start(t) \/ StartFails(t) \/ Exit(t)
    PROVE  PracticeInv'
<1>1. StoresOK' /\ Grows(outbox, outbox')
  BY OutboxKept DEF PracticeInv, StoresOK, Mount, Leave, Start, StartFails, Exit, storage
<1>2. outbox' \in Outbox
  BY <1>1 DEF StoresOK
<1>3. tab[t] \in TabState /\ kept \in 0..MaxRuns /\ Good(t, Closed, outbox') /\ Closed \in TabState
  BY <1>2, ClosedIsGood DEF PracticeInv, StoresOK
<1>4. CASE Mount(t)
  <2> DEFINE s == [Closed EXCEPT !.pc = "overview", !.stored = kept]
  <2>1. Good(t, s, outbox')
    BY <1>3 DEF Good, Closed, TabState, OnCard, Screen
  <2>2. Becomes(t, s)
    BY <1>4 DEF Mount
  <2> QED
    BY <1>1, <2>1, <2>2, MovesAlone
<1>5. CASE Leave(t)
  <2>1. Becomes(t, Closed)
    BY <1>5 DEF Leave
  <2> QED
    BY <1>1, <1>3, <2>1, MovesAlone
<1>6. CASE Start(t)
  <2> DEFINE s == [tab[t] EXCEPT !.pc = "starting"]
  <2>1. Good(t, s, outbox')
    BY <1>3 DEF Good, TabState, OnCard, Screen
  <2>2. Becomes(t, s)
    BY <1>6 DEF Start
  <2> QED
    BY <1>1, <2>1, <2>2, MovesAlone
<1>7. CASE StartFails(t)
  <2> DEFINE s == [tab[t] EXCEPT !.pc = "overview"]
  <2>1. Good(t, s, outbox')
    BY <1>3 DEF Good, TabState, OnCard, Screen
  <2>2. Becomes(t, s)
    BY <1>7 DEF StartFails
  <2> QED
    BY <1>1, <2>1, <2>2, MovesAlone
<1>8. CASE Exit(t)
  <2> DEFINE s == [Closed EXCEPT !.pc = "overview", !.stored = tab[t].stored]
  <2>1. Good(t, s, outbox')
    BY <1>3 DEF Good, Closed, TabState, OnCard, Screen
  <2>2. Becomes(t, s)
    BY <1>8 DEF Exit
  <2> QED
    BY <1>1, <2>1, <2>2, MovesAlone
<1> QED
  BY <1>4, <1>5, <1>6, <1>7, <1>8

(* A card comes on the screen.                                             *)
LEMMA CardMoves ==
    ASSUME PracticeInv, NEW t \in Tab, Issue(t) \/ Resume(t)
    PROVE  PracticeInv'
<1>1. StoresOK' /\ Grows(outbox, outbox')
  BY OutboxKept, FirstCard DEF PracticeInv, StoresOK, Issue, Resume, storage
<1>2. outbox' \in Outbox /\ outbox' = outbox
  BY <1>1 DEF StoresOK, Issue, Resume
<1>3. tab[t] \in TabState /\ Closed \in TabState
  BY ClosedIsGood DEF PracticeInv
<1>4. CASE Issue(t)
  <2> DEFINE s == [Closed EXCEPT !.pc = "card", !.stored = issued + 1]
  <2>1. issued + 1 \in Run
    BY <1>4, FirstCard DEF Issue, Run, PracticeInv, StoresOK
  <2>2. s.pc = "card" /\ s.stored = issued + 1 /\ s.at = 1 /\ s.input = NoDraft
    BY DEF Closed
  <2>3. s \in TabState
    <3>1. issued + 1 \in 0..MaxRuns
      BY <2>1, FirstCard DEF Run
    <3> QED
      BY <1>3, <3>1 DEF Closed, TabState, Screen, OnCard
  <2>4. OfCard(s.stored, s.at, s.input)
    BY <2>1, <2>2, FirstCard, NoDraftIsDraft
  <2>5. Good(t, s, outbox')
    BY <2>1, <2>2, <2>3, <2>4 DEF Good
  <2>6. Becomes(t, s)
    BY <1>4 DEF Issue
  <2> QED
    BY <1>1, <2>5, <2>6, MovesAlone
<1>5. CASE Resume(t)
  <2> DEFINE r  == tab[t].stored
             at == Answered(r) + 1
             s  == IF at > Cards THEN [tab[t] EXCEPT !.pc = "finished", !.at = Cards]
                   ELSE [tab[t] EXCEPT !.pc = "card", !.at = at, !.input = drafts[r][at]]
  <2>1. r \in Run
    BY <1>3, <1>5, FirstCard DEF Resume, TabState, Run
  <2>2. Answered(r) \in 0..Cards /\ \A c \in 1..Answered(r) : outbox[r][c] # None
    BY <2>1, ResumesAfterAnswers DEF PracticeInv
  <2>3. Cards \in Card
    BY UnitAssumption DEF Card
  <2>4. ASSUME at > Cards PROVE Good(t, s, outbox')
    <3>1. s = [tab[t] EXCEPT !.pc = "finished", !.at = Cards]
      BY <2>4
    <3>2. s \in TabState /\ s.pc = "finished" /\ s.stored = r
      BY <1>3, <2>3, <3>1 DEF TabState, Screen
    <3> QED
      BY <2>1, <3>2 DEF Good, OnCard
  <2>5. ASSUME ~(at > Cards) PROVE Good(t, s, outbox')
    <3>1. s = [tab[t] EXCEPT !.pc = "card", !.at = at, !.input = drafts[r][at]]
      BY <2>5
    <3>2. at \in Card /\ drafts[r][at] \in Draft /\ OfCard(r, at, drafts[r][at])
      BY <2>1, <2>2, <2>5, FirstCard DEF PracticeInv, StoresOK, Card
    <3>3. s \in TabState /\ s.pc = "card" /\ s.stored = r /\ s.at = at /\ s.input = drafts[r][at]
      BY <1>3, <3>1, <3>2 DEF TabState, Screen, OnCard
    <3>4. \A c \in 1..(s.at - 1) : outbox[r][c] # None
      BY <2>2, <3>3
    <3> QED
      BY <1>2, <2>1, <3>2, <3>3, <3>4 DEF Good
  <2>6. Good(t, s, outbox')
    BY <1>2, <2>4, <2>5
  <2>7. Becomes(t, s)
    BY <1>5 DEF Resume
  <2> QED
    BY <1>1, <2>6, <2>7, MovesAlone
<1> QED
  BY <1>4, <1>5

(* What is put on the screen, and what is written as the draft.            *)
LEMMA InputMoves ==
    ASSUME PracticeInv, NEW t \in Tab, tab[t].pc = "card", NEW input \in Draft,
           OfCard(tab[t].stored, tab[t].at, input), Input(t, input),
           UNCHANGED <<storage, outbox>>
    PROVE  PracticeInv'
<1> DEFINE r == tab[t].stored
           c == tab[t].at
<1>1. tab[t] \in TabState /\ r \in Run /\ c \in Card /\ Good(t, tab[t], outbox)
  BY DEF PracticeInv, Good, TabState, OnCard
<1>2. \/ drafts' = drafts
      \/ drafts' = [drafts EXCEPT ![r][c] = input]
  BY DEF Input
<1>3. /\ drafts' \in [Run -> [Card -> Draft]]
      /\ \A q \in Run, d \in Card : OfCard(q, d, drafts'[q][d])
  <2>1. /\ drafts \in [Run -> [Card -> Draft]]
        /\ \A q \in Run, d \in Card : OfCard(q, d, drafts[q][d])
    BY DEF PracticeInv, StoresOK
  <2>2. CASE drafts' = [drafts EXCEPT ![r][c] = input]
    <3>1. \A q \in Run, d \in Card :
             drafts'[q][d] = IF q = r /\ d = c THEN input ELSE drafts[q][d]
      BY <1>1, <2>1, <2>2
    <3>2. drafts' \in [Run -> [Card -> Draft]]
      BY <1>1, <2>1, <2>2
    <3> QED
      BY <2>1, <3>1, <3>2
  <2> QED
    BY <1>2, <2>1, <2>2
<1>4. StoresOK' /\ Grows(outbox, outbox') /\ outbox' = outbox
  BY <1>3, OutboxKept DEF PracticeInv, StoresOK, storage, OfCard
<1>5. PICK b \in BOOLEAN : Becomes(t, [tab[t] EXCEPT !.input = input, !.unsaved = b])
  BY DEF Input
<1> DEFINE s == [tab[t] EXCEPT !.input = input, !.unsaved = b]
<1>6. s \in TabState /\ s.pc = "card" /\ s.stored = r /\ s.at = c /\ s.input = input
  BY <1>1, <1>5 DEF TabState
<1>7. Good(t, s, outbox')
  BY <1>1, <1>4, <1>6 DEF Good, OnCard
<1>8. Becomes(t, s)
  BY <1>5
<1> QED
  BY <1>4, <1>7, <1>8, MovesAlone

LEMMA ScreenMoves ==
    ASSUME PracticeInv, NEW t \in Tab,
           \/ \E text \in Typed(tab[t].stored, tab[t].at) \cup {Blank} : Type(t, text)
           \/ Reveal(t)
           \/ SaveAgain(t)
    PROVE  PracticeInv'
<1>1. tab[t].pc = "card"
  BY DEF Type, Reveal, SaveAgain
<1>2. /\ tab[t].stored \in Run /\ tab[t].at \in Card /\ tab[t].input \in Draft
      /\ OfCard(tab[t].stored, tab[t].at, tab[t].input)
  BY <1>1 DEF PracticeInv, Good, TabState, OnCard
<1>3. ASSUME NEW text \in Typed(tab[t].stored, tab[t].at) \cup {Blank}, Type(t, text)
      PROVE  PracticeInv'
  <2> DEFINE input == [text |-> text, revealed |-> FALSE]
  <2>1. input \in Draft /\ OfCard(tab[t].stored, tab[t].at, input)
    BY <1>2, TypedIsText DEF Draft, OfCard
  <2>2. Input(t, input) /\ UNCHANGED <<storage, outbox>>
    BY <1>3 DEF Type
  <2> QED
    BY <1>1, <2>1, <2>2, InputMoves
<1>4. CASE Reveal(t)
  <2> DEFINE input == [tab[t].input EXCEPT !.revealed = TRUE]
  <2>1. input \in Draft /\ input.text = tab[t].input.text
    BY <1>2 DEF Draft
  <2>2. OfCard(tab[t].stored, tab[t].at, input)
    BY <1>2, <1>4, <2>1 DEF OfCard, Reveal
  <2>3. Input(t, input) /\ UNCHANGED <<storage, outbox>>
    BY <1>4 DEF Reveal
  <2> QED
    BY <1>1, <2>1, <2>2, <2>3, InputMoves
<1>5. CASE SaveAgain(t)
  <2>1. Input(t, tab[t].input) /\ UNCHANGED <<storage, outbox>>
    BY <1>5 DEF SaveAgain
  <2> QED
    BY <1>1, <1>2, <2>1, InputMoves
<1> QED
  BY <1>3, <1>4, <1>5

LEMMA GradeMoves ==
    ASSUME PracticeInv, NEW t \in Tab, Grade(t)
    PROVE  PracticeInv'
<1> DEFINE found == outbox[tab[t].stored][tab[t].at]
           text  == tab[t].input.text
           a     == IF found = None THEN [by |-> t, text |-> text]
                    ELSE [by |-> found.by, text |-> found.text]
           s     == [tab[t] EXCEPT !.pc = IF found = None THEN "commit" ELSE "clear", !.answer = a]
<1>1. StoresOK' /\ Grows(outbox, outbox') /\ outbox' = outbox
  BY OutboxKept DEF PracticeInv, StoresOK, Grade, storage
<1>2. /\ tab[t] \in TabState /\ tab[t].stored \in Run /\ tab[t].at \in Card
      /\ tab[t].pc = "card" /\ tab[t].input.revealed
      /\ Good(t, tab[t], outbox)
  BY DEF PracticeInv, Good, TabState, OnCard, Grade
<1>3. text \in Typed(tab[t].stored, tab[t].at) /\ text \in Text
  BY <1>2, TypedIsText DEF Good, OfCard, OnCard
<1>4. found \in Answer \cup {None}
  BY <1>2 DEF PracticeInv, StoresOK, Outbox
<1>5. a \in Graded
  BY <1>3, <1>4 DEF Graded, Answer
<1>6. /\ s \in TabState /\ s.stored = tab[t].stored /\ s.at = tab[t].at
      /\ s.input = tab[t].input /\ s.answer = a
      /\ s.pc = IF found = None THEN "commit" ELSE "clear"
  BY <1>2, <1>5 DEF TabState, Screen, OnCard
<1>7. Good(t, s, outbox')
  BY <1>1, <1>2, <1>6 DEF Good, OnCard
<1>8. Becomes(t, s)
  BY DEF Grade
<1> QED
  BY <1>1, <1>7, <1>8, MovesAlone

(* A commit answers a card that has no answer.                             *)
LEMMA CommitAnswers ==
    ASSUME PracticeInv, NEW t \in Tab, tab[t].pc = "commit", Stores(t)
    PROVE  LET r == tab[t].stored
               c == tab[t].at
               a == [by |-> t, text |-> tab[t].answer.text, accepted |-> FALSE]
           IN  /\ r \in Run /\ c \in Card /\ tab[t] \in TabState
               /\ a \in Answer /\ a.text \in Typed(r, c)
               /\ tab[t].answer = [by |-> t, text |-> a.text]
               /\ outbox[r][c] = None
               /\ outbox' \in Outbox
               /\ \A q \in Run, d \in Card :
                     outbox'[q][d] = IF q = r /\ d = c THEN a ELSE outbox[q][d]
<1> DEFINE r == tab[t].stored
           c == tab[t].at
           a == [by |-> t, text |-> tab[t].answer.text, accepted |-> FALSE]
<1>1. r \in Run /\ c \in Card /\ tab[t] \in TabState /\ Good(t, tab[t], outbox)
  BY DEF PracticeInv, Good, TabState, OnCard
<1>2. /\ tab[t].input.revealed /\ tab[t].answer = [by |-> t, text |-> tab[t].input.text]
      /\ OfCard(r, c, tab[t].input)
  BY <1>1 DEF Good, OnCard
<1>3. a.text = tab[t].input.text /\ a.text \in Typed(r, c) /\ a.text \in Text
  BY <1>1, <1>2, TypedIsText DEF OfCard
<1>4. a \in Answer
  BY <1>3 DEF Answer
<1>5. outbox \in Outbox /\ outbox[r][c] = None /\ outbox' = [outbox EXCEPT ![r][c] = a]
  BY DEF PracticeInv, StoresOK, Stores
<1>6. outbox' \in Outbox
  BY <1>1, <1>4, <1>5 DEF Outbox
<1>7. \A q \in Run, d \in Card : outbox'[q][d] = IF q = r /\ d = c THEN a ELSE outbox[q][d]
  BY <1>1, <1>5 DEF Outbox
<1> QED
  BY <1>1, <1>2, <1>3, <1>4, <1>5, <1>6, <1>7

LEMMA CommitMoves ==
    ASSUME PracticeInv, NEW t \in Tab, Commit(t)
    PROVE  PracticeInv'
<1> DEFINE r == tab[t].stored
           c == tab[t].at
           a == [by |-> t, text |-> tab[t].answer.text, accepted |-> FALSE]
           s == [tab[t] EXCEPT !.pc = "clear"]
<1>1. /\ r \in Run /\ c \in Card /\ tab[t] \in TabState
      /\ a \in Answer /\ a.text \in Typed(r, c)
      /\ tab[t].answer = [by |-> t, text |-> a.text]
      /\ outbox[r][c] = None
      /\ outbox' \in Outbox
      /\ \A q \in Run, d \in Card : outbox'[q][d] = IF q = r /\ d = c THEN a ELSE outbox[q][d]
  BY CommitAnswers DEF Commit
<1>2. tab[t].pc = "commit" /\ UNCHANGED <<storage, drafts>> /\ Becomes(t, s)
  BY DEF Commit
<1>3. Grows(outbox, outbox')
  BY <1>1 DEF Grows
<1>4. \A q \in Run, d \in Card : outbox'[q][d] # None => outbox'[q][d].text \in Typed(q, d)
  BY <1>1 DEF PracticeInv, StoresOK
<1>5. StoresOK'
  BY <1>1, <1>2, <1>4 DEF PracticeInv, StoresOK, storage, OfCard
<1>6. a # None /\ a.by = t
  BY <1>1, NoneAssumption
<1>7. /\ s \in TabState /\ s.pc = "clear" /\ s.stored = r /\ s.at = c
      /\ s.answer = tab[t].answer /\ s.input = tab[t].input
  BY <1>1 DEF TabState, Screen, OnCard
<1>8. outbox'[r][c] = a
  BY <1>1
<1>9. \A d \in 1..(c - 1) : outbox'[r][d] # None
  <2>1. \A d \in 1..(c - 1) : d \in Card
    BY <1>1, FirstCard DEF Card
  <2>2. \A d \in 1..(c - 1) : outbox[r][d] # None
    BY <1>2 DEF PracticeInv, Good, OnCard
  <2> QED
    BY <1>1, <1>3, <2>1, <2>2 DEF Grows
<1>10. OfCard(r, c, tab[t].input)
  BY <1>2 DEF PracticeInv, Good, OnCard
<1>11. Good(t, s, outbox')
  BY <1>1, <1>6, <1>7, <1>8, <1>9, <1>10 DEF Good
<1> QED
  BY <1>2, <1>3, <1>5, <1>11, MovesAlone

(* The card stays, or the tab goes on with the stored answer.              *)
LEMMA AfterGradeMoves ==
    ASSUME PracticeInv, NEW t \in Tab, CommitFails(t) \/ Clear(t)
    PROVE  PracticeInv'
<1>1. /\ tab[t].stored \in Run /\ tab[t].at \in Card /\ tab[t] \in TabState
      /\ Good(t, tab[t], outbox) /\ outbox' = outbox
  BY DEF PracticeInv, Good, TabState, OnCard, CommitFails, Clear
<1>2. CASE CommitFails(t)
  <2> DEFINE s == [tab[t] EXCEPT !.pc = "card", !.answer = None]
  <2>1. StoresOK' /\ Grows(outbox, outbox')
    BY <1>2, OutboxKept DEF PracticeInv, StoresOK, CommitFails, storage
  <2>2. tab[t].pc = "commit" /\ Becomes(t, s)
    BY <1>2 DEF CommitFails
  <2>3. /\ s \in TabState /\ s.pc = "card" /\ s.stored = tab[t].stored
        /\ s.at = tab[t].at /\ s.input = tab[t].input
    BY <1>1 DEF TabState, Screen, OnCard
  <2>4. Good(t, s, outbox')
    BY <1>1, <2>2, <2>3 DEF Good, OnCard
  <2> QED
    BY <2>1, <2>2, <2>4, MovesAlone
<1>3. CASE Clear(t)
  <2> DEFINE r == tab[t].stored
             c == tab[t].at
             s == [tab[t] EXCEPT !.pc = "send"]
  <2>1. tab[t].pc = "clear" /\ Becomes(t, s)
    BY <1>3 DEF Clear
  <2>2. /\ drafts \in [Run -> [Card -> Draft]]
        /\ \A q \in Run, d \in Card : OfCard(q, d, drafts[q][d])
    BY DEF PracticeInv, StoresOK
  <2>3. ASSUME drafts' = [drafts EXCEPT ![r][c] = NoDraft] PROVE StoresOK'
    <3>1. \A q \in Run, d \in Card :
             drafts'[q][d] = IF q = r /\ d = c THEN NoDraft ELSE drafts[q][d]
      BY <1>1, <2>2, <2>3
    <3>2. drafts' \in [Run -> [Card -> Draft]]
      BY <1>1, <2>2, <2>3, NoDraftIsDraft
    <3>3. \A q \in Run, d \in Card : OfCard(q, d, drafts'[q][d])
      BY <2>2, <3>1, NoDraftIsDraft
    <3> QED
      BY <1>3, <3>2, <3>3 DEF PracticeInv, StoresOK, Clear, storage, OfCard
  <2>4. ASSUME drafts' = drafts PROVE StoresOK'
    BY <1>3, <2>4 DEF PracticeInv, StoresOK, Clear, storage, OfCard
  <2>5. Grows(outbox, outbox')
    BY <1>1, OutboxKept
  <2>6. StoresOK'
    <3>1. \/ drafts' = drafts
          \/ drafts' = [drafts EXCEPT ![r][c] = NoDraft]
      BY <1>3 DEF Clear
    <3> QED
      BY <2>3, <2>4, <3>1
  <2>7. /\ s \in TabState /\ s.pc = "send" /\ s.stored = r /\ s.at = c
        /\ s.answer = tab[t].answer /\ s.input = tab[t].input
    BY <1>1 DEF TabState, Screen, OnCard
  <2>8. Good(t, s, outbox')
    BY <1>1, <2>1, <2>7 DEF Good, OnCard
  <2> QED
    BY <2>1, <2>5, <2>6, <2>8, MovesAlone
<1> QED
  BY <1>2, <1>3

LEMMA SentMoves ==
    ASSUME PracticeInv, NEW t \in Tab, Sent(t)
    PROVE  PracticeInv'
<1> DEFINE r == tab[t].stored
           c == tab[t].at
<1>1. /\ r \in Run /\ c \in Card /\ tab[t] \in TabState
      /\ Good(t, tab[t], outbox) /\ tab[t].pc = "send" /\ Closed \in TabState
  BY ClosedIsGood DEF PracticeInv, Good, TabState, OnCard, Sent
<1>2. StoresOK' /\ Grows(outbox, outbox') /\ outbox' = outbox
  BY OutboxKept DEF PracticeInv, StoresOK, Sent, storage
<1>3. \A d \in 1..c : outbox[r][d] # None
  <2>1. outbox[r][c] # None /\ \A d \in 1..(c - 1) : outbox[r][d] # None
    BY <1>1 DEF Good, OnCard
  <2>2. c \in Nat
    BY <1>1, FirstCard
  <2>3. \A d \in 1..c : d = c \/ d \in 1..(c - 1)
    BY <2>2
  <2> QED
    BY <2>1, <2>3
<1>4. CASE Becomes(t, NextCard(t)) /\ c = Cards
  <2> DEFINE s == [Closed EXCEPT !.pc = "finished", !.stored = r, !.at = Cards]
  <2>1. s \in TabState /\ s.pc = "finished" /\ s.stored = r
    BY <1>1, <1>4 DEF Closed, TabState, Screen, Run
  <2>2. Good(t, s, outbox')
    BY <1>1, <2>1 DEF Good, OnCard
  <2>3. Becomes(t, s)
    BY <1>4 DEF NextCard
  <2> QED
    BY <1>2, <2>2, <2>3, MovesAlone
<1>5. CASE Becomes(t, NextCard(t)) /\ c # Cards
  <2> DEFINE s == [Closed EXCEPT !.pc = "card", !.stored = r, !.at = c + 1]
  <2>1. c + 1 \in Card /\ c \in Nat
    BY <1>1, <1>5, FirstCard DEF Card
  <2>2. s \in TabState /\ s.pc = "card" /\ s.stored = r /\ s.at = c + 1 /\ s.input = NoDraft
    BY <1>1, <2>1 DEF Closed, TabState, Screen, OnCard
  <2>3. OfCard(r, c + 1, NoDraft)
    BY <1>1, <2>1, NoDraftIsDraft
  <2>4. \A d \in 1..(s.at - 1) : outbox'[r][d] # None
    BY <1>2, <1>3, <2>1, <2>2
  <2>5. Good(t, s, outbox')
    BY <1>1, <2>2, <2>3, <2>4 DEF Good
  <2>6. Becomes(t, s)
    BY <1>5 DEF NextCard
  <2> QED
    BY <1>2, <2>5, <2>6, MovesAlone
<1>6. CASE Becomes(t, [tab[t] EXCEPT !.pc = "card", !.answer = None])
  <2> DEFINE s == [tab[t] EXCEPT !.pc = "card", !.answer = None]
  <2>1. s \in TabState /\ s.pc = "card" /\ s.stored = r /\ s.at = c /\ s.input = tab[t].input
    BY <1>1 DEF TabState, Screen, OnCard
  <2>2. Good(t, s, outbox')
    BY <1>1, <1>2, <2>1 DEF Good, OnCard
  <2> QED
    BY <1>2, <1>6, <2>2, MovesAlone
<1> QED
  BY <1>4, <1>5, <1>6 DEF Sent

-----------------------------------------------------------------------------
(* A delivery marks an answer and touches no tab.                          *)
LEMMA DeliverMarks ==
    ASSUME PracticeInv, NEW r \in Run, NEW c \in Card, Deliver(r, c)
    PROVE  /\ outbox' \in Outbox
           /\ \A q \in Run, d \in Card :
                 outbox'[q][d] = IF q = r /\ d = c THEN [outbox[r][c] EXCEPT !.accepted = TRUE]
                                 ELSE outbox[q][d]
           /\ outbox[r][c] \in Answer
<1> DEFINE a == [outbox[r][c] EXCEPT !.accepted = TRUE]
<1>1. outbox \in Outbox /\ outbox[r][c] \in Answer
  BY DEF PracticeInv, StoresOK, Outbox, Deliver
<1>2. a \in Answer
  BY <1>1 DEF Answer
<1>3. outbox' = [outbox EXCEPT ![r][c] = a]
  BY <1>1 DEF Deliver, Outbox
<1> QED
  BY <1>1, <1>2, <1>3 DEF Outbox

LEMMA DeliverMoves ==
    ASSUME PracticeInv, NEW r \in Run, NEW c \in Card, Deliver(r, c)
    PROVE  PracticeInv'
<1>1. /\ outbox' \in Outbox
      /\ \A q \in Run, d \in Card :
            outbox'[q][d] = IF q = r /\ d = c THEN [outbox[r][c] EXCEPT !.accepted = TRUE]
                            ELSE outbox[q][d]
      /\ outbox[r][c] \in Answer
  BY DeliverMarks
<1>2. LET a == [outbox[r][c] EXCEPT !.accepted = TRUE]
      IN  /\ a # None /\ outbox[r][c] # None
          /\ a.by = outbox[r][c].by /\ a.text = outbox[r][c].text
  <2> DEFINE a == [outbox[r][c] EXCEPT !.accepted = TRUE]
  <2>1. a \in Answer /\ a.by = outbox[r][c].by /\ a.text = outbox[r][c].text
    BY <1>1 DEF Answer
  <2> QED
    BY <1>1, <2>1, NoneAssumption
<1>3. Grows(outbox, outbox')
  BY <1>1, <1>2 DEF Grows
<1>4. \A q \in Run, d \in Card : outbox'[q][d] # None => outbox'[q][d].text \in Typed(q, d)
  BY <1>1, <1>2 DEF PracticeInv, StoresOK
<1>5. StoresOK'
  BY <1>1, <1>4 DEF PracticeInv, StoresOK, Deliver, storage, OfCard
<1>6. tab' = tab
  BY DEF Deliver
<1>7. \A u \in Tab : Good(u, tab[u], outbox')
  BY <1>1, <1>3, GoodStays DEF PracticeInv, StoresOK
<1>8. \A u \in Tab : Good(u, tab'[u], outbox')
  BY <1>6, <1>7
<1>9. (\A u \in Tab : Good(u, tab[u], outbox))'
  BY <1>8 DEF Good, OfCard
<1> QED
  BY <1>5, <1>6, <1>9 DEF PracticeInv

-----------------------------------------------------------------------------
LEMMA InitInv == Init => PracticeInv
<1> SUFFICES ASSUME Init PROVE PracticeInv
  OBVIOUS
<1>1. outbox \in Outbox /\ \A r \in Run, c \in Card : outbox[r][c] = None
  BY DEF Init, Outbox
<1>2. /\ drafts \in [Run -> [Card -> Draft]]
      /\ \A r \in Run, c \in Card : OfCard(r, c, drafts[r][c])
  BY NoDraftIsDraft DEF Init
<1>3. StoresOK
  BY <1>1, <1>2, FirstCard DEF Init, StoresOK
<1>4. tab \in [Tab -> TabState] /\ \A t \in Tab : tab[t] = Closed
  BY ClosedIsGood DEF Init
<1>5. \A t \in Tab : Good(t, tab[t], outbox)
  BY <1>1, <1>4, ClosedIsGood
<1> QED
  BY <1>3, <1>4, <1>5 DEF PracticeInv

LEMMA NextInv == PracticeInv /\ [Next]_vars => PracticeInv'
<1> SUFFICES ASSUME PracticeInv, [Next]_vars PROVE PracticeInv'
  OBVIOUS
<1>1. CASE UNCHANGED vars
  BY <1>1 DEF vars, PracticeInv, StoresOK, Good, OfCard
<1>2. ASSUME NEW t \in Tab, Mount(t) \/ Leave(t) \/ Start(t) \/ StartFails(t) \/ Exit(t)
      PROVE  PracticeInv'
  BY <1>2, OverviewMoves
<1>3. ASSUME NEW t \in Tab, Issue(t) \/ Resume(t) PROVE PracticeInv'
  BY <1>3, CardMoves
<1>4. ASSUME NEW t \in Tab,
             \/ \E text \in Typed(tab[t].stored, tab[t].at) \cup {Blank} : Type(t, text)
             \/ Reveal(t)
             \/ SaveAgain(t)
      PROVE  PracticeInv'
  BY <1>4, ScreenMoves
<1>5. ASSUME NEW t \in Tab, Grade(t) PROVE PracticeInv'
  BY <1>5, GradeMoves
<1>6. ASSUME NEW t \in Tab, Commit(t) PROVE PracticeInv'
  BY <1>6, CommitMoves
<1>7. ASSUME NEW t \in Tab, CommitFails(t) \/ Clear(t) PROVE PracticeInv'
  BY <1>7, AfterGradeMoves
<1>8. ASSUME NEW t \in Tab, Sent(t) PROVE PracticeInv'
  BY <1>8, SentMoves
<1>9. ASSUME NEW r \in Run, NEW c \in Card, Deliver(r, c) PROVE PracticeInv'
  BY <1>9, DeliverMoves
<1> QED
  BY <1>1, <1>2, <1>3, <1>4, <1>5, <1>6, <1>7, <1>8, <1>9 DEF Next

(* The state of the stores and of every tab, however many tabs there are   *)
(* and however they interleave, close and reload (StudyUnitPractice.tsx,   *)
(* gradeCurrent of ReviewSession.tsx).                                     *)
THEOREM PracticeIsOrderly == Spec => []PracticeInv
BY InitInv, NextInv, PTL DEF Spec

(* The memory of a tab stays within its run: it never shows a card past    *)
(* the last one (advance in ReviewSession.tsx).                            *)
THEOREM PracticeTypes == Spec => []PracticeTypeOK
<1>1. PracticeInv => PracticeTypeOK
  BY DEF PracticeInv, StoresOK, PracticeTypeOK, TabState, Outbox
<1> QED
  BY <1>1, PracticeIsOrderly, PTL

(* What is stored as the answer of a card, and what stands on the screen,  *)
(* was typed on that card of that run, whatever drafts survived            *)
(* (saveDraft and resume).                                                 *)
THEOREM TextsStayOnTheirCard == Spec => []TextIsOfTheCard
<1>1. PracticeInv => TextIsOfTheCard
  <2> SUFFICES ASSUME PracticeInv PROVE TextIsOfTheCard
    OBVIOUS
  <2>1. \A r \in Run, c \in Card : outbox[r][c] # None => outbox[r][c].text \in Typed(r, c)
    BY DEF PracticeInv, StoresOK
  <2>2. \A t \in Tab : tab[t].pc = "card" =>
           tab[t].input.text \in Typed(tab[t].stored, tab[t].at) \cup {Blank}
    BY DEF PracticeInv, Good, OfCard, OnCard
  <2> QED
    BY <2>1, <2>2 DEF TextIsOfTheCard
<1> QED
  BY <1>1, PracticeIsOrderly, PTL

(* A tab that goes on reports the answer that is stored, though another    *)
(* tab may have given it (gradeCurrent).                                   *)
THEOREM ReportsWhatIsStored == Spec => []ResultIsStored
<1>1. PracticeInv => ResultIsStored
  BY DEF PracticeInv, Good, ResultIsStored
<1> QED
  BY <1>1, PracticeIsOrderly, PTL

(* A tab on a card has every earlier card answered, after any reload       *)
(* between a commit and the removal of its draft (resume, advance).        *)
THEOREM CardsAreTakenInOrder == Spec => []NoCardIsSkipped
<1>1. PracticeInv => NoCardIsSkipped
  BY DEF PracticeInv, Good, OnCard, NoCardIsSkipped
<1> QED
  BY <1>1, PracticeIsOrderly, PTL

(* No step of any tab replaces an answer (commitOfflineAttempt refuses a   *)
(* second attempt of the instance).                                        *)
THEOREM AnswersStay == Spec => AnswersAreFinal
<1> DEFINE Same == \A r \in Run, c \in Card : outbox[r][c] # None =>
             outbox'[r][c] \in {outbox[r][c], [outbox[r][c] EXCEPT !.accepted = TRUE]}
<1>1. ASSUME PracticeInv, [Next]_vars PROVE [Same]_vars
  <2>1. CASE outbox' = outbox
    BY <2>1
  <2>2. ASSUME NEW t \in Tab, Commit(t) PROVE Same
    <3> DEFINE r == tab[t].stored
               c == tab[t].at
    <3>1. /\ r \in Run /\ c \in Card /\ outbox[r][c] = None
          /\ \A q \in Run, d \in Card : ~(q = r /\ d = c) => outbox'[q][d] = outbox[q][d]
      BY <1>1, <2>2, CommitAnswers DEF Commit
    <3> QED
      BY <3>1
  <2>3. ASSUME NEW r \in Run, NEW c \in Card, Deliver(r, c) PROVE Same
    BY <1>1, <2>3, DeliverMarks
  <2>4. \/ outbox' = outbox
        \/ \E t \in Tab : Commit(t)
        \/ \E r \in Run, c \in Card : Deliver(r, c)
    BY <1>1 DEF Next, vars, storage, Mount, Leave, Start, Issue, StartFails, Resume, Exit,
                Type, Reveal, SaveAgain, Grade, CommitFails, Clear, Sent
  <2> QED
    BY <2>1, <2>2, <2>3, <2>4
<1> QED
  BY <1>1, PracticeIsOrderly, PTL DEF Spec, AnswersAreFinal

-----------------------------------------------------------------------------
(* The mirror.  The server's state of an epoch is of that epoch, and a     *)
(* sync that is about to write holds a state the server had.               *)

ServerSound ==
    /\ past \subseteq Mirror!State /\ \A state \in past : state.rev > 0
    /\ epoch \in Epoch
    /\ server \in [Epoch -> Mirror!State]
    /\ \A e \in Epoch : server[e] \in past \cup {Mirror!NoState(e)} /\ server[e].epoch = e

SyncsSound ==
    /\ pc \in [Tab -> {"idle", "persist"}]
    /\ answer \in [Tab -> Mirror!State]
    /\ \A s \in Tab : pc[s] = "persist" => answer[s] \in past

Record(e) == {state \in past : state.epoch = e} \cup {Mirror!NoState(e), Mirror!Malformed(e)}

MirrorSound ==
    /\ ServerSound /\ SyncsSound
    /\ DOMAIN mirror = Epoch /\ mirror = [e \in Epoch |-> mirror[e]]
    /\ \A e \in Epoch : mirror[e] \in Record(e)

LEMMA NoStateIsState ==
    /\ Mirror!Unread \in Mirror!State
    /\ \A e \in Epoch :
          /\ Mirror!NoState(e) \in Mirror!State
          /\ Mirror!NoState(e).epoch = e /\ Mirror!NoState(e).rev = 0
          /\ Mirror!Malformed(e).epoch = e /\ Mirror!Malformed(e).rev = 0
<1>1. \A e \in Epoch : Mirror!NoState(e) \in Mirror!State /\ Mirror!NoState(e).epoch = e /\ Mirror!NoState(e).rev = 0
  BY DEF Mirror!NoState, Mirror!State
<1>2. \A e \in Epoch : Mirror!Malformed(e).epoch = e /\ Mirror!Malformed(e).rev = 0
  BY DEF Mirror!NoState, Mirror!Malformed
<1>3. Mirror!Unread \in Mirror!State
  BY <1>1, PracticeAssumption DEF Mirror!MirrorAssumption, Mirror!Unread
<1> QED
  BY <1>1, <1>2, <1>3

LEMMA ReviewedState ==
    ASSUME NEW state \in Mirror!State, NEW c \in Grading
    PROVE  LET now == [state EXCEPT !.rev = @ + 1, !.content = c]
           IN  now \in Mirror!State /\ now.rev > 0 /\ now.epoch = state.epoch
<1> DEFINE rev == state.rev + 1
           now == [state EXCEPT !.rev = rev, !.content = c]
<1>1. rev \in Nat /\ rev > 0
  BY DEF Mirror!State
<1>2. now = [state EXCEPT !.rev = @ + 1, !.content = c]
  OBVIOUS
<1> HIDE DEF rev
<1>3. now \in Mirror!State /\ now.rev = rev /\ now.epoch = state.epoch
  BY <1>1 DEF Mirror!State
<1> QED
  BY <1>1, <1>2, <1>3

LEMMA MirrorStarts == Mirror!Init => MirrorSound
BY NoStateIsState DEF Mirror!Init, MirrorSound, ServerSound, SyncsSound, Record

LEMMA ServerMoves ==
    ASSUME MirrorSound,
           \/ \E c \in Grading : Mirror!Review(c)
           \/ \E state \in past \cup {Mirror!NoState(e) : e \in Epoch} : Mirror!Restore(state)
           \/ \E e \in Epoch : Mirror!Deploy(e)
    PROVE  MirrorSound' /\ UNCHANGED <<mirror, pc>>
<1>1. UNCHANGED <<mirror, pc, answer>> /\ past \subseteq past'
  BY DEF Mirror!Review, Mirror!Restore, Mirror!Deploy
<1>2. ServerSound'
  <2>1. ASSUME NEW c \in Grading, Mirror!Review(c) PROVE ServerSound'
    <3> DEFINE now == [server[epoch] EXCEPT !.rev = @ + 1, !.content = c]
    <3>1. server[epoch] \in Mirror!State /\ server[epoch].epoch = epoch /\ epoch \in Epoch
      BY DEF MirrorSound, ServerSound
    <3>2. now \in Mirror!State /\ now.rev > 0 /\ now.epoch = epoch
      BY <3>1, ReviewedState
    <3>3. server' = [server EXCEPT ![epoch] = now] /\ epoch' = epoch
      BY <2>1 DEF Mirror!Review
    <3>4. server'[epoch] = now /\ \A e \in Epoch \ {epoch} : server'[e] = server[e]
      BY <3>1, <3>3 DEF MirrorSound, ServerSound
    <3>5. past' = past \cup {now}
      BY <2>1, <3>4 DEF Mirror!Review
    <3> HIDE DEF now
    <3> QED
      BY <3>1, <3>2, <3>3, <3>4, <3>5 DEF MirrorSound, ServerSound, Mirror!NoState
  <2>2. ASSUME NEW state \in past \cup {Mirror!NoState(e) : e \in Epoch}, Mirror!Restore(state)
        PROVE  ServerSound'
    <3>1. state \in Mirror!State /\ state.epoch \in Epoch
          /\ (state \in past \/ state = Mirror!NoState(state.epoch))
      BY NoStateIsState DEF MirrorSound, ServerSound, Mirror!State
    <3> QED
      BY <2>2, <3>1 DEF MirrorSound, ServerSound, Mirror!Restore, Mirror!NoState
  <2>3. ASSUME NEW e \in Epoch, Mirror!Deploy(e) PROVE ServerSound'
    BY <2>3 DEF MirrorSound, ServerSound, Mirror!Deploy, Mirror!NoState
  <2> QED
    BY <2>1, <2>2, <2>3
<1> QED
  BY <1>1, <1>2 DEF MirrorSound, SyncsSound, Record, Mirror!NoState, Mirror!Malformed

(* The one step that writes: what it adopts is newer than what it read, or *)
(* replaces nothing.                                                       *)
LEMMA PersistMoves ==
    ASSUME MirrorSound, NEW s \in Tab, Mirror!Persist(s)
    PROVE  MirrorSound' /\ Mirror!NeverRewinds /\ Mirror!SuccessIsReflected
<1> DEFINE candidate == answer[s]
           current   == mirror[candidate.epoch]
           decision  == IF current = Mirror!Malformed(candidate.epoch) THEN "unavailable"
                        ELSE Mirror!Decision(current, candidate)
<1>1. /\ candidate \in past /\ candidate \in Mirror!State /\ candidate.epoch \in Epoch
      /\ candidate.rev \in Nat /\ candidate.rev > 0
  BY DEF MirrorSound, ServerSound, SyncsSound, Mirror!Persist, Mirror!State
<1>2. /\ pc[s] = "persist" /\ result' = decision
      /\ pc' = [pc EXCEPT ![s] = "idle"] /\ answer' = [answer EXCEPT ![s] = Mirror!Unread]
      /\ mirror' = IF decision = "adopt" THEN [mirror EXCEPT ![candidate.epoch] = candidate] ELSE mirror
      /\ UNCHANGED <<server, past, epoch>>
  BY DEF Mirror!Persist, Mirror!End
<1>3. current \in Record(candidate.epoch) /\ current.rev \in Nat
  BY <1>1, NoStateIsState DEF MirrorSound, ServerSound, Record, Mirror!State
<1>4. /\ decision = "adopt" => candidate.rev > current.rev /\ current # Mirror!Malformed(candidate.epoch)
      /\ decision = "ignore" => current.rev > candidate.rev
      /\ decision = "idempotent" => current = candidate
  BY <1>1, <1>3, NoStateIsState DEF Mirror!Decision
<1>5. \A e \in Epoch :
         mirror'[e] = IF decision = "adopt" /\ e = candidate.epoch THEN candidate ELSE mirror[e]
  BY <1>1, <1>2 DEF MirrorSound
<1>6. Mirror!NeverRewinds
  BY <1>4, <1>5 DEF Mirror!NeverRewinds
<1>7. ASSUME NEW u \in Tab, pc[u] = "persist", pc'[u] = "idle",
             result' \in {"adopt", "ignore", "idempotent"}
      PROVE  mirror'[answer[u].epoch].rev > answer[u].rev \/ mirror'[answer[u].epoch] = answer[u]
  <2>1. u = s
    BY <1>2, <1>7 DEF MirrorSound, SyncsSound
  <2> QED
    BY <1>1, <1>2, <1>4, <1>5, <1>7, <2>1
<1>8. Mirror!SuccessIsReflected
  BY <1>7 DEF Mirror!SuccessIsReflected
<1>9. MirrorSound'
  <2>1. SyncsSound'
    BY <1>2, NoStateIsState DEF MirrorSound, SyncsSound
  <2>2. ServerSound'
    BY <1>2 DEF MirrorSound, ServerSound, Mirror!NoState
  <2>3. DOMAIN mirror' = Epoch /\ mirror' = [e \in Epoch |-> mirror'[e]]
    BY <1>2 DEF MirrorSound
  <2>4. \A e \in Epoch : mirror'[e] \in Record(e)
    BY <1>1, <1>5 DEF MirrorSound, Record
  <2> QED
    BY <1>2, <2>1, <2>2, <2>3, <2>4 DEF MirrorSound, Record, Mirror!NoState, Mirror!Malformed
<1> QED
  BY <1>6, <1>8, <1>9

LEMMA OtherSyncMoves ==
    ASSUME MirrorSound, NEW s \in Tab,
           Mirror!Fetch(s) \/ Mirror!FetchFails(s) \/ Mirror!StorageFails(s)
    PROVE  MirrorSound' /\ Mirror!NeverRewinds /\ Mirror!SuccessIsReflected
<1>1. UNCHANGED <<server, past, epoch, mirror>>
  BY DEF Mirror!Fetch, Mirror!FetchFails, Mirror!StorageFails
<1>2. SyncsSound'
  <2>1. CASE Mirror!Fetch(s)
    <3>1. server[epoch] \in past /\ server[epoch] \in Mirror!State
      BY <2>1, NoStateIsState DEF MirrorSound, ServerSound, Mirror!Fetch
    <3> QED
      BY <1>1, <2>1, <3>1 DEF MirrorSound, SyncsSound, Mirror!Fetch
  <2>2. CASE Mirror!FetchFails(s) \/ Mirror!StorageFails(s)
    BY <1>1, <2>2, NoStateIsState
       DEF MirrorSound, SyncsSound, Mirror!FetchFails, Mirror!StorageFails, Mirror!End
  <2> QED
    BY <2>1, <2>2
<1>3. Mirror!SuccessIsReflected
  <2>1. ASSUME NEW u \in Tab, pc[u] = "persist", pc'[u] = "idle"
        PROVE  result' = "unavailable"
    BY <2>1 DEF MirrorSound, SyncsSound, Mirror!Fetch, Mirror!FetchFails, Mirror!StorageFails, Mirror!End
  <2> QED
    BY <2>1 DEF Mirror!SuccessIsReflected
<1>4. Mirror!NeverRewinds
  BY <1>1 DEF Mirror!NeverRewinds
<1> QED
  BY <1>1, <1>2, <1>3, <1>4 DEF MirrorSound, ServerSound, Record, Mirror!NoState, Mirror!Malformed

LEMMA DamageMoves ==
    ASSUME MirrorSound, NEW e \in Epoch, Mirror!Damage(e)
    PROVE  MirrorSound' /\ Mirror!NeverRewinds /\ Mirror!SuccessIsReflected
<1>1. /\ \E record \in {Mirror!NoState(e), Mirror!Malformed(e)} : mirror' = [mirror EXCEPT ![e] = record]
      /\ UNCHANGED <<server, past, epoch, pc, answer, result>>
  BY DEF Mirror!Damage
<1>2. \A d \in Epoch \ {e} : mirror'[d] = mirror[d]
  BY <1>1 DEF MirrorSound
<1>3. Mirror!NeverRewinds
  BY <1>2 DEF Mirror!NeverRewinds
<1>4. Mirror!SuccessIsReflected
  BY <1>1 DEF Mirror!SuccessIsReflected
<1>5. \A d \in Epoch : mirror'[d] \in Record(d)
  BY <1>1, <1>2 DEF MirrorSound, Record
<1>6. DOMAIN mirror' = Epoch /\ mirror' = [d \in Epoch |-> mirror'[d]]
  BY <1>1 DEF MirrorSound
<1> QED
  BY <1>1, <1>3, <1>4, <1>5, <1>6
     DEF MirrorSound, ServerSound, SyncsSound, Record, Mirror!NoState, Mirror!Malformed

LEMMA MirrorMoves == MirrorSound /\ [Mirror!Next]_mirrorVars => MirrorSound' /\ [Mirror!MirrorStep]_mirrorVars
<1> SUFFICES ASSUME MirrorSound, [Mirror!Next]_mirrorVars
             PROVE  MirrorSound' /\ [Mirror!MirrorStep]_mirrorVars
  OBVIOUS
<1>1. Mirror!MirrorTypeOK
  BY DEF MirrorSound, SyncsSound, Record, Mirror!MirrorTypeOK
<1>2. CASE UNCHANGED mirrorVars
  BY <1>2 DEF mirrorVars, MirrorSound, ServerSound, SyncsSound, Record, Mirror!NoState, Mirror!Malformed
<1>3. CASE Mirror!Next
  <2>1. ASSUME MirrorSound', UNCHANGED <<mirror, pc>>
        PROVE  MirrorSound' /\ [Mirror!MirrorStep]_mirrorVars
    BY <1>1, <2>1 DEF Mirror!MirrorStep, Mirror!NeverRewinds, Mirror!SuccessIsReflected
  <2>2. ASSUME MirrorSound', Mirror!NeverRewinds, Mirror!SuccessIsReflected
        PROVE  MirrorSound' /\ [Mirror!MirrorStep]_mirrorVars
    BY <1>1, <2>2 DEF Mirror!MirrorStep
  <2> QED
    BY <1>3, <2>1, <2>2, ServerMoves, PersistMoves, OtherSyncMoves, DamageMoves DEF Mirror!Next
<1> QED
  BY <1>2, <1>3

(* Whatever the server's history, the deployments and the storage, no sync *)
(* takes the mirror of an epoch back, and a sync that reports success has  *)
(* left the server's answer or a later state in it                         *)
(* (adoptObjectiveStateMirror).                                            *)
THEOREM MirrorsMoveForward == Mirror!Spec => MirrorsAdvance
<1>1. Mirror!Init => MirrorSound
  BY MirrorStarts
<1>2. MirrorSound /\ [Mirror!Next]_mirrorVars => MirrorSound' /\ [Mirror!MirrorStep]_mirrorVars
  BY MirrorMoves
<1> QED
  BY <1>1, <1>2, PTL DEF Mirror!Spec, Mirror!vars, mirrorVars, MirrorsAdvance

-----------------------------------------------------------------------------
(* The preparation of cards.  A request is disturbed by another only       *)
(* through the database, whose rows stay: what an exercise relies on,      *)
(* Holds, is about rows that were there.                                   *)

UsesOf(r) == IF r \in unit THEN "practice-only" ELSE "srs"

LEMMA PreparationConstants ==
    /\ MaxInstances \in Nat /\ MaxFailures \in Nat /\ None \notin Nat
    /\ \A r \in Request : Preparation!Curriculum(r) \in Seq(Preparation!Revision)
    /\ \A r \in Request : \A i, j \in DOMAIN Preparation!Curriculum(r) :
          Preparation!Curriculum(r)[i].exercise = Preparation!Curriculum(r)[j].exercise => i = j
BY PracticeAssumption DEF Preparation!PreparationAssumption, Preparation!Curriculum

LEMMA RevisionsAreOfExercises ==
    ASSUME NEW q \in Seq(Preparation!Revision), NEW i \in DOMAIN q
    PROVE  q[i].exercise \in Exercise /\ i \in Nat /\ i > 0
<1>1. q[i] \in Preparation!Revision /\ i \in 1..Len(q) /\ Len(q) \in Nat
  OBVIOUS
<1> QED
  BY <1>1 DEF Preparation!Revision

(* An exercise is shipped in one revision.                                 *)
LEMMA ShippedIsTheRevision ==
    ASSUME NEW r \in Request, NEW rev \in Preparation!ToSet(Preparation!Curriculum(r))
    PROVE  rev \in Preparation!Revision /\ Preparation!Shipped(r, rev.exercise) = rev
<1>1. PICK i \in DOMAIN Preparation!Curriculum(r) : rev = Preparation!Curriculum(r)[i]
  BY DEF Preparation!ToSet
<1>2. rev \in Preparation!Revision
  BY <1>1, PreparationConstants
<1>3. \A other \in Preparation!ToSet(Preparation!Curriculum(r)) : other.exercise = rev.exercise => other = rev
  BY <1>1, PreparationConstants DEF Preparation!ToSet
<1>4. Preparation!Shipped(r, rev.exercise)
        = CHOOSE other \in Preparation!ToSet(Preparation!Curriculum(r)) : other.exercise = rev.exercise
  BY DEF Preparation!Shipped, Preparation!Curriculum
<1> QED
  BY <1>2, <1>3, <1>4

LEMMA BegunIsShipped ==
    ASSUME NEW r \in Request, NEW e \in Exercise,
           Preparation!PreparationInvariant, stage[r][e] # "waiting"
    PROVE  /\ Preparation!Shipped(r, e) \in Preparation!Revision
           /\ Preparation!Shipped(r, e).exercise = e
<1>1. PICK i \in 1..begun[r] : queue[r][i].exercise = e
  BY DEF Preparation!PreparationInvariant, Preparation!IsOrderly
<1>2. begun[r] <= Len(queue[r]) /\ queue[r] \in Seq(Preparation!Revision) /\ begun[r] \in Nat
  BY DEF Preparation!PreparationInvariant, Preparation!IsOrderly, Preparation!PreparationTypeOK
<1>3. i \in DOMAIN queue[r]
  BY <1>1, <1>2
<1>4. queue[r][i] \in Preparation!ToSet(Preparation!Curriculum(r))
  BY <1>3 DEF Preparation!PreparationInvariant, Preparation!IsOrderly
<1> QED
  BY <1>1, <1>4, ShippedIsTheRevision

LEMMA PreparationStarts == Preparation!Init => Preparation!PreparationInvariant
<1> SUFFICES ASSUME Preparation!Init PROVE Preparation!PreparationInvariant
  OBVIOUS
<1>1. Preparation!PreparationTypeOK
  BY PreparationConstants
     DEF Preparation!Init, Preparation!PreparationTypeOK, Preparation!Stage, Preparation!Objective
<1>2. \A r \in Request : Preparation!IsOrderly(r)
  BY DEF Preparation!Init, Preparation!IsOrderly
<1>3. \A r \in Request, e \in Exercise : Preparation!Holds(r, e)
  BY DEF Preparation!Init, Preparation!Holds
<1>4. Preparation!OpenIsScheduled
  BY DEF Preparation!Init, Preparation!OpenIsScheduled
<1>5. Preparation!InstancesKeepTheirContent /\ Preparation!CardsAreTheirInstances /\ Preparation!FailuresStayLocal
  BY DEF Preparation!Init, Preparation!InstancesKeepTheirContent, Preparation!CardsAreTheirInstances,
         Preparation!FailuresStayLocal
<1> QED
  BY <1>1, <1>2, <1>3, <1>4, <1>5 DEF Preparation!PreparationInvariant

(* A step of the database: rows are added, and an instance is opened only  *)
(* as it is issued.                                                        *)
DatabaseGrows ==
    /\ archive \subseteq archive' /\ archive' \subseteq Preparation!Revision
    /\ defined' \subseteq Preparation!Objective /\ due' \subseteq Preparation!Objective
    /\ bound' \subseteq (Exercise \X Nat) \X Preparation!Objective
    /\ open' \in [Preparation!Objective -> Preparation!Ids \cup {None}]
    /\ failures' \in 0..MaxFailures
    /\ instances' \in Seq(Preparation!Instance)
    /\ Len(instances) <= Len(instances') /\ Len(instances') <= MaxInstances
    /\ \A i \in 1..Len(instances) : instances'[i] = instances[i]
    /\ Preparation!OpenIsScheduled' /\ Preparation!InstancesKeepTheirContent'

LEMMA DatabaseStays ==
    ASSUME Preparation!PreparationInvariant, UNCHANGED <<archive, defined, bound, instances, open, due>>,
           failures' \in 0..MaxFailures
    PROVE  DatabaseGrows
<1>1. Preparation!OpenIsScheduled' /\ Preparation!InstancesKeepTheirContent'
  BY DEF Preparation!PreparationInvariant, Preparation!OpenIsScheduled,
         Preparation!InstancesKeepTheirContent, Preparation!Identity
<1> QED
  BY <1>1, PreparationConstants DEF DatabaseGrows, Preparation!PreparationInvariant, Preparation!PreparationTypeOK

(* The properties follow from what each request and exercise keeps.        *)
LEMMA PropertiesFollow ==
    ASSUME Preparation!PreparationTypeOK', DatabaseGrows,
           \A r \in Request : Preparation!IsOrderly(r)',
           \A r \in Request, e \in Exercise : Preparation!Holds(r, e)',
           \A r \in Request, e \in Exercise : stage'[r][e] = "card" =>
              instances'[given'[r][e]].exercise = e
    PROVE  Preparation!PreparationInvariant'
<1>1. Preparation!FailuresStayLocal'
  <2>1. ASSUME NEW r \in Request, status'[r] = "failed" PROVE r \in unit' /\ Preparation!Busy(r)' = {}
    BY <2>1 DEF Preparation!IsOrderly
  <2>2. ASSUME NEW r \in Request, status'[r] = "shown", NEW e \in Preparation!Exercises(r)'
        PROVE  stage'[r][e] \in IF r \in unit' THEN {"card"} ELSE {"card", "none"}
    <3>1. queue'[r] \in Seq(Preparation!Revision)
      BY DEF Preparation!PreparationTypeOK
    <3>2. PICK i \in DOMAIN queue'[r] : e = queue'[r][i].exercise
      BY <2>2 DEF Preparation!Exercises, Preparation!ToSet
    <3>3. e \in Exercise /\ i \in 1..Len(queue'[r])
      BY <3>1, <3>2, RevisionsAreOfExercises
    <3>4. ~broken'[r] /\ begun'[r] = Len(queue'[r]) /\ stage'[r][e] \notin Preparation!UnderWay
      BY <2>2, <3>3 DEF Preparation!IsOrderly, Preparation!Ended, Preparation!Busy
    <3>5. stage'[r][e] # "waiting" /\ (r \in unit' => stage'[r][e] # "none")
      BY <3>2, <3>3, <3>4 DEF Preparation!IsOrderly
    <3>6. stage'[r][e] \in Preparation!Stage
      BY <3>3 DEF Preparation!PreparationTypeOK
    <3> QED
      BY <3>4, <3>5, <3>6 DEF Preparation!Stage
  <2> QED
    BY <2>1, <2>2 DEF Preparation!FailuresStayLocal
<1>2. Preparation!CardsAreTheirInstances'
  <2> SUFFICES ASSUME NEW r \in Request, NEW e \in Exercise, stage'[r][e] = "card"
               PROVE  /\ instances'[given'[r][e]].exercise = e
                      /\ instances'[given'[r][e]].use = IF r \in unit' THEN "practice-only" ELSE "srs"
                      /\ r \in unit' => \A s \in Request \ {r}, f \in Exercise : given'[s][f] # given'[r][e]
    BY DEF Preparation!CardsAreTheirInstances, Preparation!Persisted
  <2>1. given'[r][e] # None
    BY DEF Preparation!Holds
  <2> QED
    BY <2>1 DEF Preparation!Holds, Preparation!Persisted
<1> QED
  BY <1>1, <1>2 DEF Preparation!PreparationInvariant, DatabaseGrows

(* What an exercise holds is not disturbed by the others.                  *)
LEMMA HoldsStays ==
    ASSUME Preparation!PreparationInvariant, DatabaseGrows,
           NEW r \in Request, NEW e \in Exercise,
           stage'[r][e] = stage[r][e], given'[r][e] = given[r][e],
           r \in unit' <=> r \in unit,
           \A s \in Request \ {r}, f \in Exercise :
              given[r][e] # None /\ r \in unit => given'[s][f] # given[r][e]
    PROVE  /\ Preparation!Holds(r, e)'
           /\ stage'[r][e] = "card" => instances'[given'[r][e]].exercise = e
<1>1. Preparation!Holds(r, e)
  BY DEF Preparation!PreparationInvariant
<1>2. instances \in Seq(Preparation!Instance) /\ instances' \in Seq(Preparation!Instance)
  BY DEF Preparation!PreparationInvariant, Preparation!PreparationTypeOK, DatabaseGrows
<1>3. given[r][e] # None =>
         /\ given[r][e] \in DOMAIN instances /\ given[r][e] \in DOMAIN instances'
         /\ instances'[given[r][e]] = instances[given[r][e]]
  BY <1>1, <1>2 DEF DatabaseGrows, Preparation!Holds
<1>4. given'[r][e] # None =>
         /\ given'[r][e] \in DOMAIN instances'
         /\ instances'[given'[r][e]].use = IF r \in unit' THEN "practice-only" ELSE "srs"
         /\ r \in unit' => \A s \in Request \ {r}, f \in Exercise : given'[s][f] # given'[r][e]
  BY <1>1, <1>3 DEF Preparation!Holds, Preparation!Persisted
<1>5. stage'[r][e] \in {"define", "bind", "issue"} => Preparation!Shipped(r, e) \in archive'
  BY <1>1 DEF DatabaseGrows, Preparation!Holds
<1>6. Preparation!Holds(r, e)'
  BY <1>1, <1>4, <1>5 DEF Preparation!Holds, Preparation!Persisted, Preparation!Shipped
<1>7. stage[r][e] = "card" => instances[given[r][e]].exercise = e /\ given[r][e] # None
  BY <1>1 DEF Preparation!PreparationInvariant, Preparation!CardsAreTheirInstances,
              Preparation!Persisted, Preparation!Holds
<1> QED
  BY <1>3, <1>6, <1>7

(* An exercise under way goes on, or is left out.                          *)
Advances(r, e, to) ==
    /\ stage' = [stage EXCEPT ![r][e] = to]
    /\ \/ to # "none" /\ UNCHANGED broken
       \/ to = "none" /\ broken' = [broken EXCEPT ![r] = @ \/ Preparation!Breaks(r)]
    /\ UNCHANGED <<unit, status, queue, begun>>

LEMMA AdvanceIsOrderly ==
    ASSUME Preparation!PreparationInvariant, NEW r \in Request, NEW e \in Exercise,
           stage[r][e] \in Preparation!UnderWay,
           NEW to \in Preparation!Stage \ {"waiting"}, Advances(r, e, to)
    PROVE  /\ \A s \in Request, f \in Exercise :
                 stage'[s][f] = IF s = r /\ f = e THEN to ELSE stage[s][f]
           /\ stage' \in [Request -> [Exercise -> Preparation!Stage]]
           /\ broken' \in [Request -> BOOLEAN]
           /\ \A s \in Request : Preparation!IsOrderly(s)'
<1>1. /\ stage \in [Request -> [Exercise -> Preparation!Stage]] /\ broken \in [Request -> BOOLEAN]
      /\ queue \in [Request -> Seq(Preparation!Revision)]
  BY DEF Preparation!PreparationInvariant, Preparation!PreparationTypeOK
<1>2. /\ \A s \in Request, f \in Exercise :
            stage'[s][f] = IF s = r /\ f = e THEN to ELSE stage[s][f]
      /\ stage' \in [Request -> [Exercise -> Preparation!Stage]]
  BY <1>1 DEF Advances
<1>3. broken' \in [Request -> BOOLEAN] /\ \A s \in Request \ {r} : broken'[s] = broken[s]
  BY <1>1 DEF Advances, Preparation!Breaks
<1>4. broken'[r] => broken[r] \/ r \in unit
  BY <1>1 DEF Advances, Preparation!Breaks
<1>5. broken[r] => broken'[r]
  BY <1>1 DEF Advances, Preparation!Breaks
<1>6. to = "none" /\ r \in unit => broken'[r]
  BY <1>1 DEF Advances, Preparation!Breaks
<1>7. ASSUME NEW s \in Request PROVE Preparation!IsOrderly(s)'
  <2>1. Preparation!IsOrderly(s) /\ queue[s] \in Seq(Preparation!Revision)
    BY <1>1 DEF Preparation!PreparationInvariant
  <2>2. \A i \in DOMAIN queue[s] : queue[s][i].exercise \in Exercise
    BY <2>1, RevisionsAreOfExercises
  <2>3. \A f \in Exercise : stage'[s][f] = "waiting" <=> stage[s][f] = "waiting"
    BY <1>2 DEF Preparation!UnderWay
  <2>4. status[s] \in {"shown", "failed"} => Preparation!Busy(s) = {} /\ s # r
    BY <2>1 DEF Preparation!IsOrderly, Preparation!Ended, Preparation!Busy
  <2>5. status[s] = "shown" => Preparation!Ended(s)'
    BY <1>2, <1>3, <2>1, <2>4 DEF Preparation!IsOrderly, Preparation!Ended, Preparation!Busy, Advances
  <2>6. status[s] = "failed" => Preparation!Busy(s)' = {}
    BY <1>2, <2>4 DEF Preparation!Busy
  <2>7. s \in unit /\ ~broken'[s] => ~broken[s] /\ \A f \in Exercise : stage'[s][f] # "none"
    BY <1>2, <1>3, <1>5, <1>6, <2>1 DEF Preparation!IsOrderly
  <2>8. broken'[s] => s \in unit
    BY <1>3, <1>4, <2>1 DEF Preparation!IsOrderly
  <2>9. status[s] = "shown" => ~broken'[s]
    BY <1>3, <2>1, <2>4 DEF Preparation!IsOrderly
  <2>10. UNCHANGED <<unit, status, queue, begun>>
    BY DEF Advances
  <2> QED
    BY <2>1, <2>2, <2>3, <2>5, <2>6, <2>7, <2>8, <2>9, <2>10
       DEF Preparation!IsOrderly, Preparation!Curriculum
<1> QED
  BY <1>2, <1>3, <1>7

(* A step of the preparation of one exercise: what it is issued has the    *)
(* use of its request, and a unit is issued what is new.                   *)
LEMMA Advance ==
    ASSUME Preparation!PreparationInvariant, DatabaseGrows,
           NEW r \in Request, NEW e \in Exercise, stage[r][e] \in Preparation!UnderWay,
           NEW to \in Preparation!Stage \ {"waiting"}, Advances(r, e, to),
           given' \in [Request -> [Exercise -> Preparation!Ids \cup {None}]],
           \A s \in Request, f \in Exercise : ~(s = r /\ f = e) => given'[s][f] = given[s][f],
           to \in {"define", "bind", "issue"} => Preparation!Shipped(r, e) \in archive',
           to \in {"resolve", "card"} => given'[r][e] # None,
           \/ given'[r][e] = given[r][e]
           \/ /\ given'[r][e] \in DOMAIN instances'
              /\ instances'[given'[r][e]].use = UsesOf(r)
              /\ r \in unit => given'[r][e] \notin DOMAIN instances,
           to = "card" => instances'[given'[r][e]].exercise = e
    PROVE  Preparation!PreparationInvariant'
<1>1. /\ \A s \in Request, f \in Exercise :
            stage'[s][f] = IF s = r /\ f = e THEN to ELSE stage[s][f]
      /\ stage' \in [Request -> [Exercise -> Preparation!Stage]]
      /\ broken' \in [Request -> BOOLEAN]
      /\ \A s \in Request : Preparation!IsOrderly(s)'
  BY AdvanceIsOrderly
<1>2. UNCHANGED <<unit, status, queue, begun>>
  BY DEF Advances
<1>3. Preparation!PreparationTypeOK'
  BY <1>1, <1>2 DEF Preparation!PreparationInvariant, Preparation!PreparationTypeOK, DatabaseGrows
<1>4. instances \in Seq(Preparation!Instance) /\ instances' \in Seq(Preparation!Instance)
  BY DEF Preparation!PreparationInvariant, Preparation!PreparationTypeOK, DatabaseGrows
<1>5. \A s \in Request, f \in Exercise : given[s][f] # None =>
         /\ given[s][f] \in DOMAIN instances /\ given[s][f] \in DOMAIN instances'
         /\ instances'[given[s][f]] = instances[given[s][f]]
         /\ instances[given[s][f]].use = UsesOf(s)
         /\ s \in unit => \A q \in Request \ {s}, g \in Exercise : given[q][g] # given[s][f]
  BY <1>4 DEF Preparation!PreparationInvariant, Preparation!Holds, Preparation!Persisted,
              DatabaseGrows, UsesOf
<1>6. ASSUME NEW s \in Request, NEW f \in Exercise, ~(s = r /\ f = e)
      PROVE  /\ Preparation!Holds(s, f)'
             /\ stage'[s][f] = "card" => instances'[given'[s][f]].exercise = f
  <2>1. stage'[s][f] = stage[s][f] /\ given'[s][f] = given[s][f]
    BY <1>1, <1>6
  <2>2. ASSUME NEW q \in Request \ {s}, NEW g \in Exercise, given[s][f] # None, s \in unit
        PROVE  given'[q][g] # given[s][f]
    <3>1. CASE given'[q][g] = given[q][g]
      BY <1>5, <2>2, <3>1
    <3>2. CASE given'[q][g] # given[q][g]
      <4>1. q = r /\ g = e /\ s # r
        BY <2>2, <3>2
      <4>2. instances'[given'[r][e]].use = UsesOf(r) /\ (r \in unit => given'[r][e] \notin DOMAIN instances)
        BY <3>2, <4>1
      <4>3. given[s][f] \in DOMAIN instances /\ instances'[given[s][f]].use = "practice-only"
        BY <1>5, <2>2 DEF UsesOf
      <4> QED
        BY <4>1, <4>2, <4>3 DEF UsesOf
    <3> QED
      BY <3>1, <3>2
  <2> QED
    BY <1>2, <2>1, <2>2, HoldsStays
<1>7. Preparation!Holds(r, e)'
  <2>1. given'[r][e] # None =>
           /\ given'[r][e] \in DOMAIN instances'
           /\ instances'[given'[r][e]].use = UsesOf(r)
    BY <1>5
  <2>2. ASSUME given'[r][e] # None, r \in unit, NEW q \in Request \ {r}, NEW g \in Exercise
        PROVE  given'[q][g] # given'[r][e]
    <3>1. given'[q][g] = given[q][g]
      BY <2>2
    <3>2. given[q][g] # None => given[q][g] \in DOMAIN instances
      BY <1>5
    <3> QED
      BY <1>5, <2>2, <3>1, <3>2
  <2>3. stage'[r][e] = to
    BY <1>1
  <2> QED
    BY <1>2, <2>1, <2>2, <2>3 DEF Preparation!Holds, Preparation!Persisted, UsesOf, Preparation!Shipped
<1>8. \A s \in Request, f \in Exercise :
         /\ Preparation!Holds(s, f)'
         /\ stage'[s][f] = "card" => instances'[given'[s][f]].exercise = f
  BY <1>1, <1>6, <1>7
<1> QED
  BY <1>1, <1>3, <1>8, PropertiesFollow

(* The request itself, while the database rests.                           *)
LEMMA RequestMoves ==
    ASSUME Preparation!PreparationInvariant, NEW r \in Request,
           UNCHANGED <<archive, defined, bound, instances, open, due, failures, given>>,
           \A s \in Request \ {r} :
              /\ status'[s] = status[s] /\ queue'[s] = queue[s] /\ begun'[s] = begun[s]
              /\ broken'[s] = broken[s] /\ stage'[s] = stage[s] /\ (s \in unit' <=> s \in unit),
           unit' \subseteq Request,
           status' \in [Request -> {"idle", "working", "shown", "failed"}],
           queue' \in [Request -> Seq(Preparation!Revision)],
           begun' \in [Request -> Nat], broken' \in [Request -> BOOLEAN],
           stage' \in [Request -> [Exercise -> Preparation!Stage]],
           Preparation!IsOrderly(r)',
           \A e \in Exercise : stage[r][e] = "waiting" \/ (stage'[r][e] = stage[r][e] /\ (r \in unit' <=> r \in unit)),
           \A e \in Exercise : stage'[r][e] \in {"waiting", "archive", stage[r][e]}
    PROVE  Preparation!PreparationInvariant'
<1>1. DatabaseGrows
  BY DatabaseStays DEF Preparation!PreparationInvariant, Preparation!PreparationTypeOK
<1>2. Preparation!PreparationTypeOK'
  BY DEF Preparation!PreparationInvariant, Preparation!PreparationTypeOK
<1>3. ASSUME NEW s \in Request \ {r} PROVE Preparation!IsOrderly(s)'
  <2>1. Preparation!IsOrderly(s)
    BY DEF Preparation!PreparationInvariant
  <2>2. /\ status[s] = "shown" => Preparation!Ended(s)'
        /\ status[s] = "failed" => Preparation!Busy(s)' = {}
    BY <2>1 DEF Preparation!IsOrderly, Preparation!Ended, Preparation!Busy
  <2>3. /\ status'[s] = status[s] /\ queue'[s] = queue[s] /\ begun'[s] = begun[s]
        /\ broken'[s] = broken[s] /\ stage'[s] = stage[s] /\ (s \in unit' <=> s \in unit)
    OBVIOUS
  <2>4. /\ begun'[s] <= Len(queue'[s])
        /\ \A i \in DOMAIN queue'[s] :
              /\ queue'[s][i] \in Preparation!ToSet(Preparation!Curriculum(s))
              /\ \A j \in DOMAIN queue'[s] : queue'[s][i].exercise = queue'[s][j].exercise => i = j
              /\ stage'[s][queue'[s][i].exercise] = "waiting" <=> begun'[s] < i
    BY <2>1, <2>3 DEF Preparation!IsOrderly
  <2>5. /\ \A e \in Exercise : stage'[s][e] # "waiting" =>
              \E i \in 1..begun'[s] : queue'[s][i].exercise = e
        /\ status'[s] = "idle" => queue'[s] = <<>>
    BY <2>1, <2>3 DEF Preparation!IsOrderly
  <2>6. /\ status'[s] = "shown" => Preparation!Ended(s)' /\ ~broken'[s]
        /\ status'[s] = "failed" => Preparation!Busy(s)' = {}
        /\ broken'[s] \/ status'[s] = "failed" => s \in unit'
        /\ s \in unit' /\ ~broken'[s] => \A e \in Exercise : stage'[s][e] # "none"
    BY <2>1, <2>2, <2>3 DEF Preparation!IsOrderly
  <2> QED
    BY <2>4, <2>5, <2>6 DEF Preparation!IsOrderly, Preparation!Curriculum
<1>4. ASSUME NEW s \in Request, NEW e \in Exercise
      PROVE  /\ Preparation!Holds(s, e)'
             /\ stage'[s][e] = "card" => instances'[given'[s][e]].exercise = e
  <2>1. given[s][e] # None /\ s \in unit =>
           \A q \in Request \ {s}, g \in Exercise : given'[q][g] # given[s][e]
    BY DEF Preparation!PreparationInvariant, Preparation!Holds
  <2>2. CASE stage'[s][e] = stage[s][e] /\ (s \in unit' <=> s \in unit)
    BY <1>1, <2>1, <2>2, HoldsStays
  <2>3. CASE ~(stage'[s][e] = stage[s][e] /\ (s \in unit' <=> s \in unit))
    <3>1. s = r /\ stage[s][e] = "waiting" /\ stage'[s][e] \in {"waiting", "archive"}
      BY <2>3
    <3>2. given'[s][e] = None
      BY <3>1 DEF Preparation!PreparationInvariant, Preparation!Holds
    <3> QED
      BY <3>1, <3>2 DEF Preparation!Holds
  <2> QED
    BY <2>2, <2>3
<1> QED
  BY <1>1, <1>2, <1>3, <1>4, PropertiesFollow

LEMMA PickedInOrder ==
    ASSUME NEW r \in Request, NEW pick \in Preparation!Picks(Len(Preparation!Curriculum(r)))
    PROVE  LET entries == [i \in DOMAIN pick |-> Preparation!Curriculum(r)[pick[i]]]
           IN  /\ entries \in Seq(Preparation!Revision)
               /\ \A i \in DOMAIN entries :
                     /\ entries[i] \in Preparation!ToSet(Preparation!Curriculum(r))
                     /\ \A j \in DOMAIN entries : entries[i].exercise = entries[j].exercise => i = j
<1> DEFINE c == Preparation!Curriculum(r)
           entries == [i \in DOMAIN pick |-> c[pick[i]]]
<1>1. c \in Seq(Preparation!Revision) /\ Len(c) \in Nat /\ DOMAIN c = 1..Len(c)
      /\ \A i, j \in 1..Len(c) : c[i].exercise = c[j].exercise => i = j
  BY PreparationConstants
<1>2. PICK k \in 0..Len(c) :
         pick \in [1..k -> 1..Len(c)] /\ \A i, j \in 1..k : i < j => pick[i] < pick[j]
  BY DEF Preparation!Picks
<1>3. \A i \in 1..k : pick[i] \in DOMAIN c /\ c[pick[i]] \in Preparation!Revision
  BY <1>1, <1>2
<1>4. entries \in Seq(Preparation!Revision) /\ DOMAIN entries = 1..k
  BY <1>1, <1>2, <1>3
<1>5. \A i \in 1..k : entries[i] \in Preparation!ToSet(c)
  BY <1>2, <1>3 DEF Preparation!ToSet
<1>6. ASSUME NEW i \in 1..k, NEW j \in 1..k, entries[i].exercise = entries[j].exercise PROVE i = j
  <2>1. pick[i] = pick[j] /\ pick[i] \in Int /\ k \in Nat /\ i \in Int /\ j \in Int
    BY <1>1, <1>2, <1>3, <1>6
  <2> QED
    BY <1>2, <2>1
<1> QED
  BY <1>4, <1>5, <1>6

LEMMA StartMoves ==
    ASSUME Preparation!PreparationInvariant, NEW r \in Request,
           Preparation!StartPage(r) \/ Preparation!StartUnit(r)
    PROVE  Preparation!PreparationInvariant'
<1>1. Preparation!PreparationTypeOK /\ Preparation!IsOrderly(r) /\ status[r] = "idle"
  BY DEF Preparation!PreparationInvariant, Preparation!StartPage, Preparation!StartUnit
<1>2. /\ queue[r] = <<>> /\ begun[r] = 0
      /\ \A e \in Exercise : stage[r][e] = "waiting"
  BY <1>1 DEF Preparation!IsOrderly, Preparation!PreparationTypeOK
<1>3. UNCHANGED <<archive, defined, bound, instances, open, due, failures, given, begun, broken, stage>>
  BY DEF Preparation!StartPage, Preparation!StartUnit, Preparation!database
<1>4. ASSUME NEW entries \in Seq(Preparation!Revision), Preparation!Begins(r, entries),
             \A i \in DOMAIN entries :
                /\ entries[i] \in Preparation!ToSet(Preparation!Curriculum(r))
                /\ \A j \in DOMAIN entries : entries[i].exercise = entries[j].exercise => i = j,
             unit' \in {unit, unit \cup {r}}
      PROVE  Preparation!PreparationInvariant'
  <2>1. /\ queue' \in [Request -> Seq(Preparation!Revision)] /\ queue'[r] = entries
        /\ status' \in [Request -> {"idle", "working", "shown", "failed"}] /\ status'[r] = "working"
        /\ \A s \in Request \ {r} : queue'[s] = queue[s] /\ status'[s] = status[s]
    BY <1>1, <1>4 DEF Preparation!Begins, Preparation!PreparationTypeOK
  <2>2. \A i \in DOMAIN entries : entries[i].exercise \in Exercise /\ i > 0
    BY <1>4, RevisionsAreOfExercises
  <2>3. Preparation!IsOrderly(r)'
    BY <1>1, <1>2, <1>3, <1>4, <2>1, <2>2 DEF Preparation!IsOrderly, Preparation!Curriculum
  <2>4. unit' \subseteq Request
    BY <1>1, <1>4 DEF Preparation!PreparationTypeOK
  <2> QED
    BY <1>1, <1>2, <1>3, <1>4, <2>1, <2>3, <2>4, RequestMoves DEF Preparation!PreparationTypeOK
<1>5. CASE Preparation!StartPage(r)
  BY <1>4, <1>5, PickedInOrder DEF Preparation!StartPage
<1>6. CASE Preparation!StartUnit(r)
  <2>1. CASE Preparation!Begins(r, Preparation!Curriculum(r))
    BY <1>4, <1>6, <2>1, PreparationConstants DEF Preparation!StartUnit, Preparation!ToSet
  <2>2. CASE status' = [status EXCEPT ![r] = "failed"] /\ UNCHANGED queue
    <3>1. Preparation!Busy(r)' = {}
      BY <1>2, <1>3 DEF Preparation!Busy, Preparation!UnderWay
    <3>2. Preparation!IsOrderly(r)' /\ unit' = unit \cup {r}
      BY <1>1, <1>2, <1>3, <1>6, <2>2, <3>1
         DEF Preparation!StartUnit, Preparation!IsOrderly, Preparation!Curriculum, Preparation!PreparationTypeOK
    <3> QED
      BY <1>1, <1>2, <1>3, <2>2, <3>2, RequestMoves DEF Preparation!PreparationTypeOK
  <2> QED
    BY <1>6, <2>1, <2>2 DEF Preparation!StartUnit
<1> QED
  BY <1>5, <1>6

LEMMA TakeMoves ==
    ASSUME Preparation!PreparationInvariant, NEW r \in Request, Preparation!Take(r)
    PROVE  Preparation!PreparationInvariant'
<1> DEFINE next == begun[r] + 1
           e    == queue[r][next].exercise
<1>1. Preparation!PreparationTypeOK /\ Preparation!IsOrderly(r)
  BY DEF Preparation!PreparationInvariant
<1>2. /\ begun[r] \in Nat /\ queue[r] \in Seq(Preparation!Revision) /\ begun[r] < Len(queue[r])
      /\ status[r] = "working" /\ ~broken[r]
  BY <1>1 DEF Preparation!PreparationTypeOK, Preparation!Take
<1>3. next \in DOMAIN queue[r] /\ e \in Exercise
  BY <1>2, RevisionsAreOfExercises
<1>4. stage[r][e] = "waiting"
  BY <1>2, <1>3 DEF Preparation!PreparationInvariant, Preparation!IsOrderly
<1>5. /\ begun' = [begun EXCEPT ![r] = next]
      /\ stage' = [stage EXCEPT ![r][e] = "archive"]
      /\ UNCHANGED <<archive, defined, bound, instances, open, due, failures, unit, status, queue, broken, given>>
  BY <1>1 DEF Preparation!Take, Preparation!database, Preparation!PreparationTypeOK
<1>6. /\ begun' \in [Request -> Nat] /\ begun'[r] = next
      /\ \A s \in Request \ {r} : begun'[s] = begun[s]
  BY <1>1, <1>2, <1>5 DEF Preparation!PreparationTypeOK
<1>7. /\ stage' \in [Request -> [Exercise -> Preparation!Stage]]
      /\ \A s \in Request \ {r} : stage'[s] = stage[s]
      /\ \A f \in Exercise : stage'[r][f] = IF f = e THEN "archive" ELSE stage[r][f]
  BY <1>1, <1>3, <1>5 DEF Preparation!PreparationTypeOK, Preparation!Stage, Preparation!UnderWay
<1>8. Preparation!IsOrderly(r)'
  <2>1. \A i \in DOMAIN queue[r] : i \in Nat /\ queue[r][i].exercise \in Exercise
    BY <1>2, RevisionsAreOfExercises
  <2>2. \A i \in DOMAIN queue[r] : queue[r][i].exercise = e => i = next
    BY <1>3 DEF Preparation!PreparationInvariant, Preparation!IsOrderly
  <2>3. \A i \in DOMAIN queue[r] :
           stage'[r][queue[r][i].exercise] = "waiting" <=> begun'[r] < i
    BY <1>1, <1>2, <1>6, <1>7, <2>1, <2>2 DEF Preparation!IsOrderly
  <2>4. \A f \in Exercise : stage'[r][f] # "waiting" =>
           \E i \in 1..begun'[r] : queue[r][i].exercise = f
    <3> SUFFICES ASSUME NEW f \in Exercise, stage'[r][f] # "waiting"
                 PROVE  \E i \in 1..begun'[r] : queue[r][i].exercise = f
      OBVIOUS
    <3>1. CASE f = e
      <4>1. next \in 1..begun'[r]
        BY <1>2, <1>6
      <4> QED
        BY <3>1, <4>1
    <3>2. CASE f # e
      <4>1. PICK i \in 1..begun[r] : queue[r][i].exercise = f
        BY <1>1, <1>7, <3>2 DEF Preparation!IsOrderly
      <4>2. i \in 1..begun'[r]
        BY <1>2, <1>6
      <4> QED
        BY <4>1, <4>2
    <3> QED
      BY <3>1, <3>2
  <2>5. begun'[r] <= Len(queue[r])
    BY <1>2, <1>6
  <2>6. r \in unit => \A f \in Exercise : stage'[r][f] # "none"
    BY <1>1, <1>2, <1>7 DEF Preparation!IsOrderly
  <2>7. /\ \A i \in DOMAIN queue[r] :
              /\ queue[r][i] \in Preparation!ToSet(Preparation!Curriculum(r))
              /\ \A j \in DOMAIN queue[r] : queue[r][i].exercise = queue[r][j].exercise => i = j
    BY <1>1 DEF Preparation!IsOrderly
  <2> QED
    BY <1>2, <1>5, <2>3, <2>4, <2>5, <2>6, <2>7 DEF Preparation!IsOrderly, Preparation!Curriculum
<1>9. \A f \in Exercise :
         /\ stage[r][f] = "waiting" \/ (stage'[r][f] = stage[r][f] /\ (r \in unit' <=> r \in unit))
         /\ stage'[r][f] \in {"waiting", "archive", stage[r][f]}
  BY <1>4, <1>5, <1>7
<1> QED
  BY <1>1, <1>5, <1>6, <1>7, <1>8, <1>9, RequestMoves DEF Preparation!PreparationTypeOK

LEMMA FinishMoves ==
    ASSUME Preparation!PreparationInvariant, NEW r \in Request, Preparation!Finish(r)
    PROVE  Preparation!PreparationInvariant'
<1>1. Preparation!PreparationTypeOK /\ Preparation!IsOrderly(r)
  BY DEF Preparation!PreparationInvariant
<1>2. /\ UNCHANGED <<archive, defined, bound, instances, open, due, failures, unit, queue, begun, broken, stage, given>>
      /\ status' = [status EXCEPT ![r] = IF broken[r] THEN "failed" ELSE "shown"]
      /\ Preparation!Ended(r)
  BY DEF Preparation!Finish, Preparation!database
<1>3. /\ status' \in [Request -> {"idle", "working", "shown", "failed"}]
      /\ status'[r] = IF broken[r] THEN "failed" ELSE "shown"
      /\ \A s \in Request \ {r} : status'[s] = status[s]
  BY <1>1, <1>2 DEF Preparation!PreparationTypeOK
<1>4. Preparation!Ended(r)'
  BY <1>2 DEF Preparation!Ended, Preparation!Busy
<1>5. Preparation!IsOrderly(r)'
  BY <1>1, <1>2, <1>3, <1>4 DEF Preparation!IsOrderly, Preparation!Curriculum, Preparation!Ended
<1> QED
  BY <1>1, <1>2, <1>3, <1>5, RequestMoves DEF Preparation!PreparationTypeOK

(* The learner and the clock.                                              *)
LEMMA LearnerMoves ==
    ASSUME Preparation!PreparationInvariant, NEW o \in Preparation!Objective,
           Preparation!Answer(o) \/ Preparation!FallsDue(o)
    PROVE  Preparation!PreparationInvariant'
<1>1. /\ UNCHANGED <<archive, defined, bound, instances, failures, unit, status, queue, begun, broken, stage, given>>
      /\ due' \subseteq Preparation!Objective
      /\ open' = open \/ open' = [open EXCEPT ![o] = None]
  BY DEF Preparation!Answer, Preparation!FallsDue, Preparation!request,
         Preparation!PreparationInvariant, Preparation!PreparationTypeOK
<1>2. /\ open' \in [Preparation!Objective -> Preparation!Ids \cup {None}]
      /\ \A p \in Preparation!Objective : open'[p] \in {open[p], None}
  BY <1>1 DEF Preparation!PreparationInvariant, Preparation!PreparationTypeOK
<1>3. DatabaseGrows
  <2>1. Preparation!OpenIsScheduled'
    BY <1>1, <1>2 DEF Preparation!PreparationInvariant, Preparation!OpenIsScheduled, Preparation!Objective
  <2>2. Preparation!InstancesKeepTheirContent'
    BY <1>1 DEF Preparation!PreparationInvariant, Preparation!InstancesKeepTheirContent, Preparation!Identity
  <2> QED
    BY <1>1, <1>2, <2>1, <2>2, PreparationConstants
       DEF DatabaseGrows, Preparation!PreparationInvariant, Preparation!PreparationTypeOK
<1>4. Preparation!PreparationTypeOK'
  BY <1>1, <1>2 DEF Preparation!PreparationInvariant, Preparation!PreparationTypeOK, Preparation!Objective
<1>5. \A r \in Request : Preparation!IsOrderly(r)'
  BY <1>1 DEF Preparation!PreparationInvariant, Preparation!IsOrderly, Preparation!Ended, Preparation!Busy,
              Preparation!Curriculum
<1>6. ASSUME NEW r \in Request, NEW e \in Exercise
      PROVE  /\ Preparation!Holds(r, e)'
             /\ stage'[r][e] = "card" => instances'[given'[r][e]].exercise = e
  <2>1. given[r][e] # None /\ r \in unit =>
           \A q \in Request \ {r}, g \in Exercise : given'[q][g] # given[r][e]
    BY <1>1 DEF Preparation!PreparationInvariant, Preparation!Holds
  <2> QED
    BY <1>1, <1>3, <2>1, HoldsStays
<1> QED
  BY <1>3, <1>4, <1>5, <1>6, PropertiesFollow

(* The preparation of one exercise.                                        *)

LEMMA AnsweredAdvances ==
    ASSUME Preparation!PreparationTypeOK, NEW r \in Request, NEW e \in Exercise,
           NEW to \in Preparation!Stage \ {"none"}, Preparation!Answered(r, e, to),
           UNCHANGED <<unit, status, queue, begun>>
    PROVE  /\ Advances(r, e, to) \/ Advances(r, e, "none")
           /\ failures' \in 0..MaxFailures
<1>1. failures \in 0..MaxFailures /\ MaxFailures \in Nat
  BY PreparationConstants DEF Preparation!PreparationTypeOK
<1> QED
  BY <1>1 DEF Preparation!Answered, Preparation!Goes, Preparation!LeaveOut, Advances

LEMMA LeftOutAdvances ==
    ASSUME NEW r \in Request, NEW e \in Exercise, Preparation!LeaveOut(r, e),
           UNCHANGED <<unit, status, queue, begun>>
    PROVE  Advances(r, e, "none")
BY DEF Preparation!LeaveOut, Advances

(* A step that leaves the instances alone.                                 *)
LEMMA AdvanceUnissued ==
    ASSUME Preparation!PreparationInvariant, DatabaseGrows, UNCHANGED given,
           NEW r \in Request, NEW e \in Exercise, stage[r][e] \in Preparation!UnderWay,
           NEW to \in {"define", "bind", "issue", "card", "none"}, Advances(r, e, to),
           to \in {"define", "bind", "issue"} => Preparation!Shipped(r, e) \in archive',
           to = "card" => given[r][e] # None /\ instances'[given[r][e]].exercise = e
    PROVE  Preparation!PreparationInvariant'
<1>1. to \in Preparation!Stage \ {"waiting"}
  BY DEF Preparation!Stage, Preparation!UnderWay
<1>2. given' \in [Request -> [Exercise -> Preparation!Ids \cup {None}]]
  BY DEF Preparation!PreparationInvariant, Preparation!PreparationTypeOK
<1> QED
  BY <1>1, <1>2, Advance

LEMMA RegisterArchiveMoves ==
    ASSUME Preparation!PreparationInvariant, NEW r \in Request, NEW e \in Exercise,
           Preparation!RegisterArchive(r, e)
    PROVE  Preparation!PreparationInvariant'
<1> DEFINE rev == Preparation!Shipped(r, e)
<1>1. /\ Preparation!PreparationTypeOK /\ stage[r][e] = "archive" /\ ~Preparation!Conflict(rev)
      /\ archive' = (archive \ Preparation!Archived(rev)) \cup {rev}
      /\ UNCHANGED <<defined, bound, instances, open, due, unit, status, queue, begun, given>>
  BY DEF Preparation!RegisterArchive, Preparation!PreparationInvariant
<1>2. rev \in Preparation!Revision
  BY <1>1, BegunIsShipped
<1>3. archive \subseteq archive' /\ archive' \subseteq Preparation!Revision /\ rev \in archive'
  BY <1>1, <1>2 DEF Preparation!Conflict, Preparation!PreparationTypeOK
<1>4. /\ Advances(r, e, "define") \/ Advances(r, e, "none")
      /\ failures' \in 0..MaxFailures
  BY <1>1, AnsweredAdvances DEF Preparation!RegisterArchive, Preparation!Stage, Preparation!UnderWay
<1>5. DatabaseGrows
  <2>1. Preparation!OpenIsScheduled'
    BY <1>1 DEF Preparation!PreparationInvariant, Preparation!OpenIsScheduled
  <2>2. Preparation!InstancesKeepTheirContent'
    BY <1>1, <1>3 DEF Preparation!PreparationInvariant, Preparation!InstancesKeepTheirContent, Preparation!Identity
  <2> QED
    BY <1>1, <1>3, <1>4, <2>1, <2>2, PreparationConstants DEF DatabaseGrows, Preparation!PreparationTypeOK
<1>6. stage[r][e] \in Preparation!UnderWay
  BY <1>1 DEF Preparation!UnderWay
<1> QED
  BY <1>1, <1>3, <1>4, <1>5, <1>6, AdvanceUnissued

LEMMA RegisterDefinitionMoves ==
    ASSUME Preparation!PreparationInvariant, NEW r \in Request, NEW e \in Exercise,
           Preparation!RegisterDefinition(r, e) \/ Preparation!RegisterBinding(r, e)
    PROVE  Preparation!PreparationInvariant'
<1>1. /\ Preparation!PreparationTypeOK /\ stage[r][e] \in {"define", "bind"}
      /\ UNCHANGED <<archive, instances, open, due, unit, status, queue, begun, given>>
  BY DEF Preparation!RegisterDefinition, Preparation!RegisterBinding, Preparation!PreparationInvariant
<1>2. Preparation!Shipped(r, e) \in archive /\ stage[r][e] \in Preparation!UnderWay
  BY <1>1 DEF Preparation!PreparationInvariant, Preparation!Holds, Preparation!UnderWay
<1>3. ObjectiveOf[e] \in Preparation!Objective
  BY DEF Preparation!Objective
<1>4. Preparation!Identity(Preparation!Shipped(r, e)) \in Exercise \X Nat
  BY <1>1, BegunIsShipped DEF Preparation!Identity, Preparation!Revision
<1>5. defined' \subseteq Preparation!Objective /\ bound' \subseteq (Exercise \X Nat) \X Preparation!Objective
  BY <1>1, <1>3, <1>4 DEF Preparation!RegisterDefinition, Preparation!RegisterBinding, Preparation!PreparationTypeOK
<1>6. PICK to \in {"bind", "issue"} : Preparation!Answered(r, e, to)
  BY DEF Preparation!RegisterDefinition, Preparation!RegisterBinding
<1>7. /\ Advances(r, e, to) \/ Advances(r, e, "none")
      /\ failures' \in 0..MaxFailures
  BY <1>1, <1>6, AnsweredAdvances DEF Preparation!Stage, Preparation!UnderWay
<1>8. DatabaseGrows
  <2>1. Preparation!OpenIsScheduled'
    BY <1>1 DEF Preparation!PreparationInvariant, Preparation!OpenIsScheduled
  <2>2. Preparation!InstancesKeepTheirContent'
    BY <1>1 DEF Preparation!PreparationInvariant, Preparation!InstancesKeepTheirContent, Preparation!Identity
  <2> QED
    BY <1>1, <1>5, <1>7, <2>1, <2>2, PreparationConstants DEF DatabaseGrows, Preparation!PreparationTypeOK
<1> QED
  BY <1>1, <1>2, <1>7, <1>8, AdvanceUnissued

LEMMA LeaveOutMoves ==
    ASSUME Preparation!PreparationInvariant, NEW r \in Request, NEW e \in Exercise,
           stage[r][e] \in Preparation!UnderWay, Preparation!LeaveOut(r, e),
           failures' \in 0..MaxFailures,
           UNCHANGED <<archive, defined, bound, instances, open, due, unit, status, queue, begun, given>>
    PROVE  Preparation!PreparationInvariant'
BY DatabaseStays, LeftOutAdvances, AdvanceUnissued

LEMMA FailureMoves ==
    ASSUME Preparation!PreparationInvariant, NEW r \in Request, NEW e \in Exercise,
           Preparation!ArchiveConflict(r, e) \/ Preparation!CallFails(r, e) \/ Preparation!IssueRefused(r, e)
    PROVE  Preparation!PreparationInvariant'
<1>1. stage[r][e] \in Preparation!UnderWay /\ Preparation!LeaveOut(r, e)
  BY DEF Preparation!ArchiveConflict, Preparation!CallFails, Preparation!IssueRefused, Preparation!UnderWay
<1>2. UNCHANGED <<archive, defined, bound, instances, open, due, unit, status, queue, begun, given>>
  BY DEF Preparation!ArchiveConflict, Preparation!CallFails, Preparation!IssueRefused, Preparation!database
<1>3. failures' \in 0..MaxFailures
  BY PreparationConstants DEF Preparation!ArchiveConflict, Preparation!CallFails, Preparation!IssueRefused,
         Preparation!PreparationInvariant, Preparation!PreparationTypeOK
<1> QED
  BY <1>1, <1>2, <1>3, LeaveOutMoves

LEMMA ResolveMoves ==
    ASSUME Preparation!PreparationInvariant, NEW r \in Request, NEW e \in Exercise, Preparation!Resolve(r, e)
    PROVE  Preparation!PreparationInvariant'
<1>1. /\ stage[r][e] = "resolve" /\ stage[r][e] \in Preparation!UnderWay /\ given[r][e] # None
      /\ UNCHANGED <<archive, defined, bound, instances, open, due, failures, unit, status, queue, begun, given>>
      /\ failures' \in 0..MaxFailures
  BY DEF Preparation!Resolve, Preparation!UnderWay, Preparation!database, Preparation!Holds,
         Preparation!PreparationInvariant, Preparation!PreparationTypeOK
<1>2. CASE Preparation!Accepted(r, e)
  <2>1. Advances(r, e, "card")
    BY <1>1, <1>2 DEF Preparation!Resolve, Preparation!Goes, Advances
  <2>2. instances[given[r][e]].exercise = e
    BY <1>2 DEF Preparation!Accepted, Preparation!Persisted
  <2> QED
    BY <1>1, <2>1, <2>2, DatabaseStays, AdvanceUnissued
<1>3. CASE ~Preparation!Accepted(r, e)
  BY <1>1, <1>3, LeaveOutMoves DEF Preparation!Resolve
<1> QED
  BY <1>2, <1>3

(* What a step past "issue" does, once an instance i is chosen.            *)
LEMMA AdvanceIssued ==
    ASSUME Preparation!PreparationInvariant, DatabaseGrows,
           NEW r \in Request, NEW e \in Exercise, stage[r][e] = "issue",
           Preparation!Answered(r, e, "resolve"), UNCHANGED <<unit, status, queue, begun>>,
           NEW i \in Preparation!Ids, given' = [given EXCEPT ![r][e] = i],
           i \in DOMAIN instances', instances'[i].use = UsesOf(r),
           r \in unit => i \notin DOMAIN instances
    PROVE  Preparation!PreparationInvariant'
<1>1. given \in [Request -> [Exercise -> Preparation!Ids \cup {None}]] /\ Preparation!PreparationTypeOK
  BY DEF Preparation!PreparationInvariant, Preparation!PreparationTypeOK
<1>2. /\ given' \in [Request -> [Exercise -> Preparation!Ids \cup {None}]]
      /\ given'[r][e] = i
      /\ \A s \in Request, f \in Exercise : ~(s = r /\ f = e) => given'[s][f] = given[s][f]
  BY <1>1
<1>3. i # None
  BY PreparationConstants DEF Preparation!Ids
<1>4. stage[r][e] \in Preparation!UnderWay
  BY DEF Preparation!UnderWay
<1>5. PICK to \in {"resolve", "none"} : Advances(r, e, to)
  BY <1>1, AnsweredAdvances DEF Preparation!Stage, Preparation!UnderWay
<1>6. to \in Preparation!Stage \ {"waiting"}
  BY DEF Preparation!Stage, Preparation!UnderWay
<1> QED
  BY <1>2, <1>3, <1>4, <1>5, <1>6, Advance

LEMMA IssueNewMoves ==
    ASSUME Preparation!PreparationInvariant, NEW r \in Request, NEW e \in Exercise, Preparation!IssueNew(r, e)
    PROVE  Preparation!PreparationInvariant'
<1> DEFINE o  == ObjectiveOf[e]
           d  == Preparation!Draft(r, e)
           id == Len(instances) + 1
<1>1. Preparation!PreparationTypeOK
  BY DEF Preparation!PreparationInvariant
<1>2. /\ stage[r][e] = "issue" /\ Len(instances) < MaxInstances
      /\ instances' = Append(instances, d)
      /\ Preparation!Answered(r, e, "resolve")
      /\ UNCHANGED <<archive, defined, bound, due, unit, status, queue, begun>>
  BY DEF Preparation!IssueNew, Preparation!Issuable
<1>3. Preparation!Shipped(r, e) \in archive /\ Preparation!Shipped(r, e) \in Preparation!Revision
      /\ Preparation!Shipped(r, e).exercise = e
  BY <1>2, BegunIsShipped DEF Preparation!PreparationInvariant, Preparation!Holds
<1>4. d \in Preparation!Instance /\ d.use = UsesOf(r) /\ d.exercise = e
      /\ d.version = Preparation!Shipped(r, e).version /\ d.presentation = Preparation!Shipped(r, e).content
  BY <1>3 DEF Preparation!Draft, Preparation!Instance, Preparation!Revision, UsesOf
<1> HIDE DEF d
<1>5. /\ instances \in Seq(Preparation!Instance) /\ instances' \in Seq(Preparation!Instance)
      /\ Len(instances) \in Nat /\ Len(instances') = id /\ instances'[id] = d
      /\ \A i \in 1..Len(instances) : instances'[i] = instances[i]
  BY <1>1, <1>2, <1>4 DEF Preparation!PreparationTypeOK
<1>6. id \in Preparation!Ids /\ id \in DOMAIN instances' /\ id \notin DOMAIN instances
  BY <1>2, <1>5, PreparationConstants DEF Preparation!Ids
<1>7. given' = [given EXCEPT ![r][e] = id]
  BY <1>5 DEF Preparation!IssueNew
<1>8. /\ open' \in [Preparation!Objective -> Preparation!Ids \cup {None}]
      /\ \A p \in Preparation!Objective : open'[p] = open[p] \/ (open'[p] = id /\ r \notin unit)
  BY <1>1, <1>5, <1>6 DEF Preparation!IssueNew, Preparation!PreparationTypeOK
<1>9. Preparation!OpenIsScheduled'
  <2>1. ASSUME NEW p \in Preparation!Objective, open'[p] # None
        PROVE  open'[p] \in DOMAIN instances' /\ instances'[open'[p]].use = "srs"
    <3>1. CASE open'[p] = open[p]
      BY <1>5, <2>1, <3>1 DEF Preparation!PreparationInvariant, Preparation!OpenIsScheduled
    <3>2. CASE open'[p] = id /\ r \notin unit
      BY <1>4, <1>5, <1>6, <3>2 DEF UsesOf
    <3> QED
      BY <1>8, <2>1, <3>1, <3>2
  <2> QED
    BY <2>1 DEF Preparation!OpenIsScheduled, Preparation!Objective
<1>10. Preparation!InstancesKeepTheirContent'
  <2>1. ASSUME NEW i \in DOMAIN instances'
        PROVE  \E rev \in archive : Preparation!Identity(rev) = Preparation!Identity(instances'[i])
                                    /\ rev.content = instances'[i].presentation
    <3>1. CASE i \in DOMAIN instances
      BY <1>5, <3>1 DEF Preparation!PreparationInvariant, Preparation!InstancesKeepTheirContent
    <3>2. CASE i \notin DOMAIN instances
      <4>1. i = id
        BY <1>5, <2>1, <3>2
      <4> QED
        BY <1>3, <1>4, <1>5, <4>1 DEF Preparation!Identity
    <3> QED
      BY <3>1, <3>2
  <2> QED
    BY <1>2, <2>1 DEF Preparation!InstancesKeepTheirContent, Preparation!Identity
<1>11. failures' \in 0..MaxFailures
  BY <1>1, <1>2, AnsweredAdvances DEF Preparation!Stage, Preparation!UnderWay
<1>12. DatabaseGrows
  BY <1>1, <1>2, <1>5, <1>8, <1>9, <1>10, <1>11, PreparationConstants DEF DatabaseGrows, Preparation!PreparationTypeOK
<1> QED
  BY <1>2, <1>4, <1>5, <1>6, <1>7, <1>12, AdvanceIssued

LEMMA ReuseMoves ==
    ASSUME Preparation!PreparationInvariant, NEW r \in Request, NEW e \in Exercise, Preparation!Reuse(r, e)
    PROVE  Preparation!PreparationInvariant'
<1> DEFINE i == open[ObjectiveOf[e]]
<1>1. /\ Preparation!PreparationTypeOK /\ stage[r][e] = "issue" /\ r \notin unit
      /\ given' = [given EXCEPT ![r][e] = i] /\ i # None
      /\ Preparation!Answered(r, e, "resolve")
      /\ UNCHANGED <<archive, defined, bound, instances, open, due, unit, status, queue, begun>>
  BY DEF Preparation!Reuse, Preparation!Issuable, Preparation!database, Preparation!PreparationInvariant
<1>2. /\ ObjectiveOf[e] \in Preparation!Objective /\ i \in Preparation!Ids
      /\ i \in DOMAIN instances /\ instances[i].use = "srs"
  BY <1>1 DEF Preparation!Objective, Preparation!PreparationInvariant, Preparation!PreparationTypeOK,
              Preparation!OpenIsScheduled
<1>3. DatabaseGrows
  BY <1>1, AnsweredAdvances, DatabaseStays DEF Preparation!Stage, Preparation!UnderWay
<1> QED
  BY <1>1, <1>2, <1>3, AdvanceIssued DEF UsesOf

LEMMA PreparationMoves ==
    Preparation!PreparationInvariant /\ [Preparation!Next]_cardVars => Preparation!PreparationInvariant'
<1> SUFFICES ASSUME Preparation!PreparationInvariant, [Preparation!Next]_cardVars
             PROVE  Preparation!PreparationInvariant'
  OBVIOUS
<1>1. CASE UNCHANGED cardVars
  <2>1. DatabaseGrows /\ Preparation!PreparationTypeOK'
    BY <1>1, DatabaseStays DEF cardVars, Preparation!PreparationInvariant, Preparation!PreparationTypeOK
  <2>2. \A r \in Request : Preparation!IsOrderly(r)'
    BY <1>1 DEF cardVars, Preparation!PreparationInvariant, Preparation!IsOrderly, Preparation!Ended,
                Preparation!Busy, Preparation!Curriculum
  <2>3. ASSUME NEW r \in Request, NEW e \in Exercise
        PROVE  /\ Preparation!Holds(r, e)'
               /\ stage'[r][e] = "card" => instances'[given'[r][e]].exercise = e
    <3>1. given[r][e] # None /\ r \in unit =>
             \A q \in Request \ {r}, g \in Exercise : given'[q][g] # given[r][e]
      BY <1>1 DEF cardVars, Preparation!PreparationInvariant, Preparation!Holds
    <3> QED
      BY <1>1, <2>1, <3>1, HoldsStays DEF cardVars
  <2> QED
    BY <2>1, <2>2, <2>3, PropertiesFollow
<1>2. CASE \E o \in Preparation!Objective : Preparation!Answer(o) \/ Preparation!FallsDue(o)
  BY <1>2, LearnerMoves
<1>3. CASE \E r \in Request : Preparation!StartPage(r) \/ Preparation!StartUnit(r)
  BY <1>3, StartMoves
<1>4. CASE \E r \in Request : Preparation!Take(r) \/ Preparation!Finish(r)
  BY <1>4, TakeMoves, FinishMoves
<1>5. ASSUME NEW r \in Request, NEW e \in Exercise, Preparation!Prepare(r, e)
      PROVE  Preparation!PreparationInvariant'
  BY <1>5, RegisterArchiveMoves, RegisterDefinitionMoves, IssueNewMoves, ReuseMoves, ResolveMoves, FailureMoves
     DEF Preparation!Prepare
<1> QED
  BY <1>1, <1>2, <1>3, <1>4, <1>5 DEF Preparation!Next, Preparation!Work

(* For any requests, deployments and curricula that disagree, a card is an *)
(* instance that was issued for its exercise and presents what the archive *)
(* keeps for it; a page loses only the cards that failed, a unit has all   *)
(* of its cards or none, and they are given to nobody else                 *)
(* (prepareReviewExercises and its callers).                               *)
THEOREM CardsStayExact == Preparation!Spec => []CardsAreExact
<1>1. Preparation!Init => CardsAreExact
  BY PreparationStarts DEF CardsAreExact
<1>2. CardsAreExact /\ [Preparation!Next]_cardVars => CardsAreExact'
  BY PreparationMoves DEF CardsAreExact
<1> QED
  BY <1>1, <1>2, PTL DEF Preparation!Spec, Preparation!vars, cardVars

-----------------------------------------------------------------------------
(* The release.                                                            *)

LEMMA ReleaseCounts == \A S : Release!Cardinality(S) = Cardinality(S)
BY DEF Release!Cardinality, Cardinality

(* Sorting a list of different exercises permutes it into their order: as  *)
(* many stand at or before an exercise as are not greater, which is        *)
(* another number for each.                                                *)
LEMMA SortsByExercise ==
  ASSUME NEW n \in Nat, NEW s, DOMAIN s = 1..n,
         \A i \in 1..n : s[i].exercise \in Nat /\ s[i].version \in Nat,
         \A i, j \in 1..n : s[i].exercise = s[j].exercise => i = j
  PROVE  /\ DOMAIN Release!Normalized(s) = 1..n
         /\ \A k \in 1..n : \E i \in 1..n : Release!Normalized(s)[k] = s[i]
         /\ \A k \in 1..(n - 1) :
               Release!Normalized(s)[k].exercise < Release!Normalized(s)[k + 1].exercise
<1> DEFINE Upto(i) == {j \in 1..n : s[j].exercise <= s[i].exercise}
           Standing(i) == {j \in DOMAIN s : \/ Release!Before(s[j], s[i])
                                            \/ j <= i /\ ~Release!Before(s[i], s[j])}
<1>1. \A i \in 1..n : Standing(i) = Upto(i)
  <2>1. ASSUME NEW i \in 1..n, NEW j \in 1..n
        PROVE  (Release!Before(s[j], s[i]) \/ (j <= i /\ ~Release!Before(s[i], s[j])))
                  <=> s[j].exercise <= s[i].exercise
    BY <2>1 DEF Release!Before
  <2> QED
    BY <2>1
<1>2. \A i \in 1..n : IsFiniteSet(Upto(i)) /\ Cardinality(Upto(i)) \in 1..n
  <2>1. IsFiniteSet(1..n) /\ Cardinality(1..n) = n
    <3>1. IsFiniteSet(1..n) /\ Cardinality(1..n) = IF 1 > n THEN 0 ELSE n - 1 + 1
      BY FS_Interval
    <3> QED
      BY <3>1
  <2>2. ASSUME NEW i \in 1..n
        PROVE  IsFiniteSet(Upto(i)) /\ Cardinality(Upto(i)) \in 1..n
    <3>1. Upto(i) \in SUBSET (1..n) /\ i \in Upto(i)
      OBVIOUS
    <3>2. IsFiniteSet(Upto(i)) /\ Cardinality(Upto(i)) <= n
      BY <2>1, <3>1, FS_Subset
    <3>3. Cardinality(Upto(i)) \in Nat /\ Cardinality(Upto(i)) # 0
      BY <3>1, <3>2, FS_CardinalityType, FS_EmptySet
    <3> HIDE DEF Upto
    <3> QED
      BY <3>2, <3>3
  <2> HIDE DEF Upto
  <2> QED
    BY <2>2
<1>3. ASSUME NEW i \in 1..n, NEW j \in 1..n, s[i].exercise < s[j].exercise
      PROVE  Cardinality(Upto(i)) < Cardinality(Upto(j))
  <2>1. Upto(i) \in SUBSET Upto(j) /\ j \in Upto(j) /\ j \notin Upto(i)
    BY <1>3
  <2>2. Cardinality(Upto(i)) <= Cardinality(Upto(j)) /\ Cardinality(Upto(i)) # Cardinality(Upto(j))
    BY <1>2, <2>1, FS_Subset
  <2> HIDE DEF Upto
  <2> QED
    BY <1>2, <2>2
<1> DEFINE P == [i \in 1..n |-> Cardinality(Upto(i))]
           q(k) == CHOOSE i \in DOMAIN s : Release!Place(s, i) = k
<1>4. Release!Normalized(s) = [k \in 1..n |-> s[q(k)]]
  BY DEF Release!Normalized
<1>5. \A i \in DOMAIN s : Release!Place(s, i) = Cardinality(Standing(i))
  BY ReleaseCounts DEF Release!Place
<1> HIDE DEF Upto, Standing
<1>6. P \in [1..n -> 1..n] /\ \A i \in 1..n : P[i] = Cardinality(Upto(i)) /\ P[i] = Release!Place(s, i)
  BY <1>1, <1>2, <1>5
<1> HIDE DEF P
<1>7. ASSUME NEW i \in 1..n, NEW j \in 1..n, P[i] = P[j]
      PROVE  i = j
  <2>1. ~(s[i].exercise < s[j].exercise) /\ ~(s[j].exercise < s[i].exercise)
    BY <1>2, <1>3, <1>6, <1>7
  <2> QED
    BY <2>1
<1>8. \A k \in 1..n : \E i \in 1..n : P[i] = k
  <2>1. P \in Injection(1..n, 1..n)
    BY <1>6, <1>7 DEF Injection, IsInjective
  <2>2. P \in Surjection(1..n, 1..n)
    BY <2>1, FS_Injection, FS_Interval
  <2> QED
    BY <2>2 DEF Surjection
<1>9. \A k \in 1..n : q(k) \in 1..n /\ P[q(k)] = k
  <2>1. ASSUME NEW k \in 1..n
        PROVE  \E i \in DOMAIN s : Release!Place(s, i) = k
    BY <1>6, <1>8, <2>1
  <2>2. ASSUME NEW k \in 1..n
        PROVE  q(k) \in DOMAIN s /\ Release!Place(s, q(k)) = k
    BY <2>1, <2>2
  <2> HIDE DEF q
  <2> QED
    BY <1>6, <2>2
<1> HIDE DEF q
<1>10. ASSUME NEW i \in 1..n, NEW j \in 1..n, P[i] < P[j]
       PROVE  s[i].exercise < s[j].exercise
  <2>1. i # j /\ P[i] \in 1..n /\ P[j] \in 1..n
    BY <1>6, <1>10
  <2>2. ~(s[j].exercise < s[i].exercise)
    BY <1>3, <1>6, <1>10, <2>1
  <2> QED
    BY <2>1, <2>2
<1>11. ASSUME NEW k \in 1..(n - 1)
       PROVE  s[q(k)].exercise < s[q(k + 1)].exercise
  <2>1. k \in 1..n /\ k + 1 \in 1..n
    OBVIOUS
  <2>2. /\ q(k) \in 1..n /\ q(k + 1) \in 1..n
        /\ P[q(k)] < P[q(k + 1)]
    BY <1>9, <2>1
  <2> QED
    BY <1>10, <2>2
<1> QED
  BY <1>4, <1>9, <1>11

LEMMA ReleaseConstants ==
  /\ Numbered \subseteq Nat /\ IsFiniteSet(Numbered)
  /\ MaxVersion \in Nat /\ 1 \in 1..MaxVersion /\ MaxEdits \in Nat
BY PracticeAssumption DEF Release!ReleaseAssumption, Release!IsFiniteSet, IsFiniteSet

LEMMA ReleaseStarts == Release!Init => Release!ReleaseInvariant
<1> SUFFICES ASSUME Release!Init PROVE Release!ReleaseInvariant
  OBVIOUS
<1>1. definition \in [Numbered -> Release!Definition]
  BY DEF Release!Init
<1>2. asset \in [Asset -> 1..MaxVersion] /\ edits \in 0..MaxEdits
  BY ReleaseConstants DEF Release!Init
<1>3. known = {} /\ release.asked = {} /\ release.entries = <<>>
  BY DEF Release!Init, Release!Nothing
<1>4. Cardinality({}) = 0 /\ Len(release.entries) = 0
  BY <1>3, FS_EmptySet
<1> QED
  BY <1>1, <1>2, <1>3, <1>4, ReleaseCounts
     DEF Release!ReleaseInvariant, Release!ReleaseTypeOK, Release!ReleaseIsItsRevisions, Release!IdentityFixesContent

(* The editor changes neither the archive nor the release.                 *)
LEMMA EditMoves ==
  ASSUME Release!ReleaseInvariant,
         \/ \E e \in Numbered : Release!EditText(e) \/ Release!SetStatus(e) \/ Release!Repin(e)
         \/ \E a \in Asset : Release!EditAsset(a)
  PROVE  Release!ReleaseInvariant'
<1>1. known' = known /\ release' = release /\ edits' \in 0..MaxEdits
  BY ReleaseConstants
     DEF Release!ReleaseInvariant, Release!ReleaseTypeOK, Release!EditText, Release!SetStatus, Release!Repin,
         Release!EditAsset, Release!Edit
<1>2. definition \in [Numbered -> Release!Definition] /\ asset \in [Asset -> 1..MaxVersion]
  BY DEF Release!ReleaseInvariant, Release!ReleaseTypeOK
<1>3. ASSUME NEW e \in Numbered, Release!EditText(e)
      PROVE  definition' \in [Numbered -> Release!Definition] /\ asset' = asset
  <2>1. PICK text \in Phrase, v \in {definition[e].version, definition[e].version + 1} :
           /\ v <= MaxVersion
           /\ definition' = [definition EXCEPT ![e].text = text, ![e].version = v]
    BY <1>3 DEF Release!EditText
  <2>2. definition[e] \in Release!Definition
    BY <1>2
  <2>3. v \in 1..MaxVersion
    BY <2>1, <2>2, ReleaseConstants DEF Release!Definition
  <2> DEFINE d == [definition[e] EXCEPT !.text = text, !.version = v]
  <2>4. d \in Release!Definition
    BY <2>2, <2>3 DEF Release!Definition
  <2>5. definition' = [definition EXCEPT ![e] = d]
    BY <1>2, <2>1
  <2> HIDE DEF d
  <2> QED
    BY <1>2, <1>3, <2>4, <2>5 DEF Release!EditText
<1>4. ASSUME NEW e \in Numbered, Release!SetStatus(e)
      PROVE  definition' \in [Numbered -> Release!Definition] /\ asset' = asset
  BY <1>2, <1>4 DEF Release!SetStatus, Release!Definition
<1>5. ASSUME NEW e \in Numbered, Release!Repin(e)
      PROVE  definition' \in [Numbered -> Release!Definition] /\ asset' = asset
  BY <1>2, <1>5 DEF Release!Repin, Release!Definition
<1>6. ASSUME NEW a \in Asset, Release!EditAsset(a)
      PROVE  definition' = definition /\ asset' \in [Asset -> 1..MaxVersion]
  BY <1>2, <1>6, ReleaseConstants DEF Release!EditAsset
<1>7. definition' \in [Numbered -> Release!Definition] /\ asset' \in [Asset -> 1..MaxVersion]
  BY <1>2, <1>3, <1>4, <1>5, <1>6
<1> QED
  BY <1>1, <1>7
     DEF Release!ReleaseInvariant, Release!ReleaseTypeOK, Release!ReleaseIsItsRevisions, Release!IdentityFixesContent

(* A manifest that names no revision twice names no exercise twice, since  *)
(* an exercise has one version at a time.                                  *)
LEMMA BuildMoves ==
  ASSUME Release!ReleaseInvariant, NEW list \in Release!Lists, Release!Build(list)
  PROVE  Release!ReleaseInvariant'
<1> DEFINE entries == [i \in DOMAIN list |-> Release!Entry(list[i])]
           asked == {[entry |-> Release!Entry(e), of |-> Release!Hashed(e)] : e \in Release!ToSet(list)}
<1>1. PICK n \in Nat : list \in [1..n -> Numbered]
  <2>1. Release!Cardinality(Numbered) \in Nat
    BY ReleaseConstants, ReleaseCounts, FS_CardinalityType
  <2> QED
    BY <2>1 DEF Release!Lists
<1>2. /\ ~Release!Errors(entries)
      /\ release' = [entries |-> Release!Normalized(entries), asked |-> asked]
      /\ UNCHANGED <<definition, asset, edits, known>>
  BY DEF Release!Build
<1>3. ASSUME NEW e \in Numbered
      PROVE  /\ Release!Hashed(e) \in Release!Contents
             /\ Release!Entry(e) = Release!Row(Release!Hashed(e)).entry
             /\ [entry |-> Release!Entry(e), of |-> Release!Hashed(e)] = Release!Row(Release!Hashed(e))
             /\ Release!Entry(e).exercise = e /\ Release!Entry(e).version = definition[e].version
             /\ definition[e].version \in Nat
  <2>1. definition[e] \in Release!Definition
    BY DEF Release!ReleaseInvariant, Release!ReleaseTypeOK
  <2> QED
    BY <2>1, ReleaseConstants
       DEF Release!Definition, Release!Contents, Release!Hashed, Release!Hash, Release!Entry, Release!Row
<1>4. \A e \in Release!ToSet(list) : e \in Numbered /\ \E i \in 1..n : list[i] = e
  BY <1>1 DEF Release!ToSet
<1>5. asked \subseteq {Release!Row(of) : of \in Release!Contents}
  BY <1>3, <1>4
<1>6. DOMAIN entries = 1..n /\ \A i \in 1..n : entries[i] = Release!Entry(list[i]) /\ list[i] \in Numbered
  BY <1>1
<1> HIDE DEF entries
<1>7. ASSUME NEW i \in 1..n, NEW j \in 1..n, list[i] = list[j]
      PROVE  i = j
  <2>1. Release!Identity(entries[i]) = Release!Identity(entries[j])
    BY <1>6, <1>7
  <2> QED
    BY <1>2, <1>6, <2>1 DEF Release!Errors
<1>8. /\ \A i \in 1..n : entries[i].exercise \in Nat /\ entries[i].version \in Nat
      /\ \A i, j \in 1..n : entries[i].exercise = entries[j].exercise => i = j
  <2>1. ASSUME NEW i \in 1..n
        PROVE  entries[i].exercise = list[i] /\ list[i] \in Nat /\ entries[i].version \in Nat
    <3>1. entries[i] = Release!Entry(list[i]) /\ list[i] \in Numbered
      BY <1>6
    <3>2. Release!Entry(list[i]).exercise = list[i] /\ Release!Entry(list[i]).version \in Nat
      BY <1>3, <3>1
    <3> QED
      BY <3>1, <3>2, ReleaseConstants
  <2> QED
    BY <1>7, <2>1
<1> DEFINE s == Release!Normalized(entries)
<1>9. /\ DOMAIN s = 1..n
      /\ \A k \in 1..n : \E i \in 1..n : s[k] = entries[i]
      /\ \A k \in 1..(n - 1) : s[k].exercise < s[k + 1].exercise
  BY <1>6, <1>8, SortsByExercise
<1>10. s = [k \in DOMAIN s |-> s[k]]
  BY <1>6 DEF Release!Normalized
<1> HIDE DEF s
<1>11. \A i \in 1..n : entries[i] \in {row.entry : row \in asked}
  <2>1. ASSUME NEW i \in 1..n
        PROVE  list[i] \in Release!ToSet(list)
    BY <1>1 DEF Release!ToSet
  <2>2. ASSUME NEW e \in Release!ToSet(list)
        PROVE  \E row \in asked : row.entry = Release!Entry(e)
    <3>1. [entry |-> Release!Entry(e), of |-> Release!Hashed(e)] \in asked
      BY <2>2
    <3> HIDE DEF asked
    <3> QED
      BY <3>1
  <2> QED
    BY <1>6, <2>1, <2>2
<1>12. n = Cardinality(asked)
  <2> DEFINE f == [i \in 1..n |-> [entry |-> Release!Entry(list[i]), of |-> Release!Hashed(list[i])]]
  <2>1. f \in [1..n -> asked]
    BY <1>1 DEF Release!ToSet
  <2>2. \A row \in asked : \E i \in 1..n : f[i] = row
    BY <1>4
  <2>3. \A i, j \in 1..n : f[i] = f[j] => i = j
    <3>1. ASSUME NEW i \in 1..n
          PROVE  f[i].entry.exercise = list[i]
      BY <1>3, <1>6
    <3> HIDE DEF f
    <3> QED
      BY <1>7, <3>1
  <2> HIDE DEF f
  <2>4. f \in Bijection(1..n, asked)
    BY <2>1, <2>2, <2>3 DEF Bijection, Injection, Surjection, IsInjective
  <2>5. ExistsBijection(1..n, asked)
    BY <2>4 DEF ExistsBijection
  <2> QED
    BY <2>5, FS_CountingElements
<1> HIDE DEF asked
<1>13. s \in Seq({row.entry : row \in asked}) /\ Len(s) = n
  <2> DEFINE T == {row.entry : row \in asked}
  <2> HIDE DEF T
  <2>1. \A k \in 1..n : s[k] \in T
    BY <1>9, <1>11 DEF T
  <2>2. s \in [1..n -> T]
    BY <1>9, <1>10, <2>1
  <2>3. s \in Seq(T) /\ Len(s) = n
    BY <2>2
  <2> QED
    BY <2>3 DEF T
<1>14. release'.entries = s /\ release'.asked = asked
  BY <1>2 DEF s
<1>15. \A i \in 1..(n - 1) : Release!Identity(s[i])[1] < Release!Identity(s[i + 1])[1]
  BY <1>9 DEF Release!Identity
<1>16. Release!ReleaseIsItsRevisions'
  BY <1>12, <1>13, <1>14, <1>15, ReleaseCounts DEF Release!ReleaseIsItsRevisions, Release!Identity
<1>17. Release!ReleaseTypeOK' /\ Release!IdentityFixesContent'
  BY <1>2, <1>5, <1>13, <1>14
     DEF Release!ReleaseInvariant, Release!ReleaseTypeOK, Release!IdentityFixesContent
<1> QED
  BY <1>16, <1>17 DEF Release!ReleaseInvariant

LEMMA RegisterMoves ==
  ASSUME Release!ReleaseInvariant, NEW row \in release.asked, Release!Register(row)
  PROVE  Release!ReleaseInvariant'
<1>1. known' = known \cup {row} /\ UNCHANGED <<definition, asset, edits, release>>
  BY DEF Release!Register
<1>2. known' \cup release.asked \subseteq {Release!Row(of) : of \in Release!Contents}
  BY <1>1 DEF Release!ReleaseInvariant, Release!ReleaseTypeOK
<1>3. \A k \in known' : k.of = k.entry.hash
  BY <1>2 DEF Release!Row
<1>4. \A a \in known : Release!Identity(a.entry) = Release!Identity(row.entry) => a.entry.hash = row.entry.hash
  BY DEF Release!Register, Release!Conflicts
<1>5. ASSUME NEW a \in known', NEW b \in known'
      PROVE  /\ Release!Identity(a.entry) = Release!Identity(b.entry) => a.of = b.of
             /\ a.entry.hash = b.entry.hash => a.of = b.of
  BY <1>1, <1>3, <1>4 DEF Release!ReleaseInvariant, Release!IdentityFixesContent
<1> QED
  BY <1>1, <1>2, <1>5
     DEF Release!ReleaseInvariant, Release!ReleaseTypeOK, Release!ReleaseIsItsRevisions, Release!IdentityFixesContent,
         Release!Identity

(* For any exercises, assets and edits, a release is its revisions in the  *)
(* order of their identities, in whatever order they were given, and an    *)
(* archived identity or hash stands for one content                        *)
(* (createContentReleaseManifest, study_graph_register_objective_archive). *)
THEOREM ReleasesStayExact == Release!Spec => []ReleasesAreExact
<1>1. Release!Init => ReleasesAreExact
  BY ReleaseStarts DEF ReleasesAreExact
<1>2. ReleasesAreExact /\ [Release!Next]_releaseVars => ReleasesAreExact'
  <2> SUFFICES ASSUME Release!ReleaseInvariant, [Release!Next]_releaseVars
               PROVE  Release!ReleaseInvariant'
    BY DEF ReleasesAreExact
  <2>1. CASE UNCHANGED releaseVars
    BY <2>1
       DEF releaseVars, Release!ReleaseInvariant, Release!ReleaseTypeOK, Release!ReleaseIsItsRevisions,
           Release!IdentityFixesContent
  <2> QED
    BY <2>1, EditMoves, BuildMoves, RegisterMoves DEF Release!Next
<1> QED
  BY <1>1, <1>2, PTL DEF Release!Spec, Release!vars, releaseVars
=============================================================================
