-------------------------- MODULE WebClientProofs --------------------------
(***************************************************************************)
(* The safety properties of the upload page, for any number of uploads and *)
(* deletes.  Together they are inductive.                                  *)
(***************************************************************************)
EXTENDS WebClient, TLAPS

PageInv ==
  TypeOK /\ ResultOnScreenIsCurrent /\ CountdownIsOfResult /\ ProgressCanBeCancelled

LEMMA InitEstablishesPage == Init => PageInv
BY ClientAssumption
   DEF Init, PageInv, TypeOK, ResultOnScreenIsCurrent, CountdownIsOfResult,
       ProgressCanBeCancelled

\* A new upload takes the page over, from whatever view.
LEMMA StartPreservesPage ==
  ASSUME PageInv, NEW u \in Uploads, StartUpload(u), chooser' \in BOOLEAN
  PROVE  PageInv'
<1> USE DEF PageInv
<1>1. TypeOK'
  BY ClientAssumption DEF TypeOK, StartUpload, Show
<1>2. ResultOnScreenIsCurrent' /\ ProgressCanBeCancelled'
  BY ClientAssumption
     DEF TypeOK, StartUpload, Show, ResultOnScreenIsCurrent, ProgressCanBeCancelled
<1>3. CountdownIsOfResult'
  BY DEF StartUpload, CountdownIsOfResult
<1> QED
  BY <1>1, <1>2, <1>3

\* The end of any upload, the latest or an older one.
LEMMA LoadedPreservesPage ==
  ASSUME PageInv, NEW u \in Uploads, Loaded(u)
  PROVE  PageInv'
<1> USE DEF PageInv
<1>1. TypeOK'
  BY DEF TypeOK, Loaded, Ends, ShowResult, Show
<1>2. ResultOnScreenIsCurrent' /\ ProgressCanBeCancelled'
  BY ClientAssumption
     DEF Loaded, Ends, ShowResult, Show, ResultOnScreenIsCurrent, ProgressCanBeCancelled
<1>3. CountdownIsOfResult'
  BY ClientAssumption DEF Loaded, ShowResult, CountdownIsOfResult
<1> QED
  BY <1>1, <1>2, <1>3

LEMMA UnloadedPreservesPage ==
  ASSUME PageInv, NEW u \in Uploads, Failed(u) \/ Cancel(u)
  PROVE  PageInv'
<1> USE DEF PageInv
<1>1. TypeOK'
  BY DEF TypeOK, Failed, Cancel, Ends, Show
<1>2. ResultOnScreenIsCurrent' /\ ProgressCanBeCancelled' /\ CountdownIsOfResult'
  BY DEF Failed, Cancel, Ends, Show, ResultOnScreenIsCurrent, ProgressCanBeCancelled,
         CountdownIsOfResult
<1> QED
  BY <1>1, <1>2

\* The result goes away, or its countdown has come to an end.
LEMMA ClearPreservesCountdown ==
  ASSUME PageInv, ClearTimer, expired' = expired,
         \/ currentResult' = None
         \/ currentResult' = currentResult /\ expiryInterval \in expired \cap Uploads
  PROVE  CountdownIsOfResult'
BY ClientAssumption DEF PageInv, ClearTimer, CountdownIsOfResult

LEMMA ClosePreservesPage ==
  ASSUME PageInv, Reset \/ \E d \in Deletes : Deleted(d)
  PROVE  PageInv'
<1> USE DEF PageInv
<1>1. TypeOK'
  <2>1. target' \in [Deletes -> Uploads \cup {None}]
    BY DEF TypeOK, Reset, Deleted, DeleteEnds
  <2>2. /\ view' = "upload" /\ currentResult' = None
        /\ expiryInterval' = None /\ timers' \subseteq Uploads
        /\ UNCHANGED <<currentXhr, displayed, chooser, upload, sent, expired>>
    BY DEF TypeOK, Reset, Deleted, DeleteEnds, ClearTimer, Show
  <2> QED
    BY <2>1, <2>2 DEF TypeOK
<1>2. ResultOnScreenIsCurrent' /\ ProgressCanBeCancelled'
  BY DEF Reset, Deleted, Show, ResultOnScreenIsCurrent, ProgressCanBeCancelled
<1>3. CountdownIsOfResult'
  BY ClearPreservesCountdown DEF Reset, Deleted, DeleteEnds
<1> QED
  BY <1>1, <1>2, <1>3

LEMMA TimerPreservesPage ==
  ASSUME PageInv, NEW u \in Uploads, UpdateExpiry(u)
  PROVE  PageInv'
<1> USE DEF PageInv
<1>1. TypeOK'
  BY DEF TypeOK, UpdateExpiry, ClearTimer
<1>2. ResultOnScreenIsCurrent' /\ ProgressCanBeCancelled'
  BY DEF UpdateExpiry, ResultOnScreenIsCurrent, ProgressCanBeCancelled
<1>3. expiryInterval \in expired \cap Uploads
  BY DEF UpdateExpiry, CountdownIsOfResult
<1>4. CountdownIsOfResult'
  BY <1>3, ClearPreservesCountdown DEF UpdateExpiry
<1> QED
  BY <1>1, <1>2, <1>4

\* What the user does and what happens elsewhere leaves the result alone.
LEMMA OthersPreservePage ==
  ASSUME PageInv,
         \/ OpenChooser \/ CloseChooser \/ UNCHANGED vars
         \/ \E u \in Uploads : Expire(u)
         \/ \E d \in Deletes : DeleteCurrent(d) \/ NotDeleted(d)
  PROVE  PageInv'
<1> USE DEF PageInv
<1>1. CASE OpenChooser \/ CloseChooser \/ UNCHANGED vars
  BY <1>1 DEF TypeOK, OpenChooser, CloseChooser, vars, ResultOnScreenIsCurrent,
              CountdownIsOfResult, ProgressCanBeCancelled
<1>2. ASSUME NEW u \in Uploads, Expire(u) PROVE PageInv'
  BY <1>2 DEF TypeOK, Expire, ResultOnScreenIsCurrent, CountdownIsOfResult,
              ProgressCanBeCancelled
<1>3. ASSUME NEW d \in Deletes, DeleteCurrent(d) \/ NotDeleted(d) PROVE PageInv'
  BY <1>3 DEF TypeOK, DeleteCurrent, NotDeleted, DeleteEnds, ResultOnScreenIsCurrent,
              CountdownIsOfResult, ProgressCanBeCancelled
<1> QED
  BY <1>1, <1>2, <1>3

LEMMA NextPreservesPage == PageInv /\ [Next]_vars => PageInv'
<1> SUFFICES ASSUME PageInv, [Next]_vars PROVE PageInv'
  OBVIOUS
<1>1. ASSUME NEW u \in Uploads, Choose(u) \/ Drop(u) PROVE PageInv'
  BY <1>1, StartPreservesPage DEF Choose, Drop, PageInv, TypeOK
<1>2. ASSUME NEW u \in Uploads, Answer(u) \/ Cancel(u) PROVE PageInv'
  BY <1>2, LoadedPreservesPage, UnloadedPreservesPage DEF Answer
<1>3. ASSUME NEW u \in Uploads, UpdateExpiry(u) PROVE PageInv'
  BY <1>3, TimerPreservesPage
<1>4. CASE Reset \/ \E d \in Deletes : Deleted(d)
  BY <1>4, ClosePreservesPage
<1>5. CASE \/ OpenChooser \/ CloseChooser \/ UNCHANGED vars
           \/ \E u \in Uploads : Expire(u)
           \/ \E d \in Deletes : DeleteCurrent(d) \/ NotDeleted(d)
  BY <1>5, OthersPreservePage
<1> QED
  BY <1>1, <1>2, <1>3, <1>4, <1>5 DEF Next

THEOREM PageInvariant == Spec => []PageInv
BY InitEstablishesPage, NextPreservesPage, PTL DEF Spec

\* Types, and that currentXhr never names a request that is over, for any
\* number of uploads that overlap.
THEOREM PageTypes == Spec => []TypeOK
<1>1. PageInv => TypeOK
  BY DEF PageInv
<1> QED
  BY <1>1, PageInvariant, PTL

\* The link on the screen is always the one that "delete now" deletes.
THEOREM ScreenShowsCurrentResult == Spec => []ResultOnScreenIsCurrent
<1>1. PageInv => ResultOnScreenIsCurrent
  BY DEF PageInv
<1> QED
  BY <1>1, PageInvariant, PTL

\* At most one timer runs, and it is the timer of the result.
THEOREM TimersFollowResults == Spec => []CountdownIsOfResult
<1>1. PageInv => CountdownIsOfResult
  BY DEF PageInv
<1> QED
  BY <1>1, PageInvariant, PTL

\* Whatever overlaps, "cancel" always has something to cancel.
THEOREM CancelAlwaysWorks == Spec => []ProgressCanBeCancelled
<1>1. PageInv => ProgressCanBeCancelled
  BY DEF PageInv
<1> QED
  BY <1>1, PageInvariant, PTL

=============================================================================
