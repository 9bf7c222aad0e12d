----------------------------- MODULE WebClient -----------------------------
(***************************************************************************)
(* The upload page (web/static/app.js): its three views, the requests that *)
(* are under way and the countdown of the link that is shown.              *)
(*                                                                         *)
(* The handlers of all requests share currentXhr, currentResult, the timer *)
(* and the view, and none of them asks whether it is still the latest.     *)
(***************************************************************************)
EXTENDS Naturals

CONSTANTS
  Uploads,      \* requests that startUpload may make
  Deletes,      \* requests that deleteCurrent may make
  None          \* null

ASSUME ClientAssumption == None \notin Uploads

VARIABLES
  view,           \* the section that is visible
  currentXhr, currentResult,
  expiryInterval, \* the timer that can be cleared; a timer is named by its upload
  timers,         \* the timers that the browser runs
  displayed,      \* the upload whose link and data the result section holds
  chooser,        \* the browser's file dialog is open
  upload,         \* what has become of every upload
  target,         \* of every DELETE: the upload it deletes, None before and after
  sent,           \* DELETEs that have been made
  expired         \* uploads whose link has expired

vars == <<view, currentXhr, currentResult, expiryInterval, timers, displayed, chooser, upload,
          target, sent, expired>>

Latest(u) == currentXhr = u

-----------------------------------------------------------------------------
(***************************************************************************)
(* Helpers of the page                                                     *)
(***************************************************************************)

Show(v) == view' = v

\* if (expiryInterval) { clearInterval(expiryInterval); expiryInterval = null; }
ClearTimer == expiryInterval' = None /\ timers' = timers \ {expiryInterval}

\* Mutant: the timer of the result before is not cleared.
ShowResult_KeepTimer(u) ==
  /\ currentResult' = u /\ displayed' = u
  /\ expiryInterval' = u /\ timers' = timers \cup {u}
  /\ Show("result")

ShowResult(u) ==
  /\ currentResult' = u /\ displayed' = u
  /\ expiryInterval' = u /\ timers' = (timers \ {expiryInterval}) \cup {u}
  /\ Show("result")

-----------------------------------------------------------------------------
(***************************************************************************)
(* Uploads                                                                 *)
(***************************************************************************)

StartUpload(u) ==
  /\ upload[u] = "none"
  /\ upload' = [upload EXCEPT ![u] = "sent"]
  /\ currentXhr' = u
  /\ Show("progress")
  /\ UNCHANGED <<currentResult, expiryInterval, timers, displayed, target, sent, expired>>

\* A click on the drop zone, which is part of the upload view.
OpenChooser ==
  /\ view = "upload" /\ ~chooser
  /\ chooser' = TRUE
  /\ UNCHANGED <<view, currentXhr, currentResult, expiryInterval, timers, displayed, upload,
                 target, sent, expired>>

CloseChooser ==
  /\ chooser /\ chooser' = FALSE
  /\ UNCHANGED <<view, currentXhr, currentResult, expiryInterval, timers, displayed, upload,
                 target, sent, expired>>

Choose(u) ==
  /\ chooser /\ chooser' = FALSE
  /\ StartUpload(u)

Drop(u) ==
  /\ view = "upload"
  /\ StartUpload(u)
  /\ UNCHANGED chooser

Ends(u, how) ==
  /\ upload[u] = "sent"
  /\ upload' = [upload EXCEPT ![u] = how]
  /\ UNCHANGED <<chooser, target, sent, expired>>

\* Mutant: currentXhr stays when an upload has been answered.
Loaded_KeepsXhr(u) ==
  /\ Ends(u, "stored")
  /\ ShowResult(u)
  /\ UNCHANGED currentXhr

\* xhr.onload with a 2xx and a payload
Loaded(u) ==
  /\ Ends(u, "stored")
  /\ currentXhr' = None
  /\ ShowResult(u)

\* Mutant: the progress view stays after an error.
Failed_NoShow(u) ==
  /\ Ends(u, "failed")
  /\ currentXhr' = None
  /\ UNCHANGED <<view, currentResult, expiryInterval, timers, displayed>>

\* xhr.onload with anything else, and xhr.onerror
Failed(u) ==
  /\ Ends(u, "failed")
  /\ currentXhr' = None
  /\ Show("upload")
  /\ UNCHANGED <<currentResult, expiryInterval, timers, displayed>>

\* cancelUpload in the progress view, and xhr.onabort within abort()
Cancel(u) ==
  /\ view = "progress" /\ Latest(u)
  /\ Ends(u, "aborted")
  /\ currentXhr' = None
  /\ Show("upload")
  /\ UNCHANGED <<currentResult, expiryInterval, timers, displayed>>

-----------------------------------------------------------------------------
(***************************************************************************)
(* The result                                                              *)
(***************************************************************************)

\* "delete now", confirmed
DeleteCurrent(d) ==
  /\ view = "result" /\ currentResult # None
  /\ d \notin sent /\ sent' = sent \cup {d}
  /\ target' = [target EXCEPT ![d] = currentResult]
  /\ UNCHANGED <<view, currentXhr, currentResult, expiryInterval, timers, displayed, chooser,
                 upload, expired>>

DeleteEnds(d) ==
  /\ target[d] # None
  /\ target' = [target EXCEPT ![d] = None]
  /\ UNCHANGED <<currentXhr, displayed, chooser, upload, sent, expired>>

\* The 2xx closes whatever result the page has by now.
Deleted(d) ==
  /\ DeleteEnds(d)
  /\ currentResult' = None
  /\ ClearTimer
  /\ Show("upload")

NotDeleted(d) ==
  /\ DeleteEnds(d)
  /\ UNCHANGED <<view, currentResult, expiryInterval, timers>>

\* Mutant: the result section stays after "drop another file".
Reset_NoShow ==
  /\ view = "result"
  /\ currentResult' = None
  /\ ClearTimer
  /\ UNCHANGED <<view, currentXhr, displayed, chooser, upload, target, sent, expired>>

\* "drop another file"
Reset ==
  /\ view = "result"
  /\ currentResult' = None
  /\ ClearTimer
  /\ Show("upload")
  /\ UNCHANGED <<currentXhr, displayed, chooser, upload, target, sent, expired>>

Expire(u) ==
  /\ upload[u] = "stored" /\ u \notin expired
  /\ expired' = expired \cup {u}
  /\ UNCHANGED <<view, currentXhr, currentResult, expiryInterval, timers, displayed, chooser,
                 upload, target, sent>>

\* updateExpiry, from the timer of u: it ends the timer once the time is up.
UpdateExpiry(u) ==
  /\ u \in timers \cap expired
  /\ ClearTimer
  /\ UNCHANGED <<view, currentXhr, currentResult, displayed, chooser, upload, target, sent, expired>>

-----------------------------------------------------------------------------
Init ==
  /\ view = "upload"
  /\ currentXhr = None /\ currentResult = None
  /\ expiryInterval = None /\ timers = {} /\ displayed = None
  /\ chooser = FALSE
  /\ upload = [u \in Uploads |-> "none"]
  /\ target = [d \in Deletes |-> None] /\ sent = {} /\ expired = {}

Answer(u) == Loaded(u) \/ Failed(u)

Next ==
  \/ OpenChooser \/ CloseChooser
  \/ \E u \in Uploads :
       Choose(u) \/ Drop(u) \/ Answer(u) \/ Cancel(u) \/ Expire(u) \/ UpdateExpiry(u)
  \/ \E d \in Deletes : DeleteCurrent(d) \/ Deleted(d) \/ NotDeleted(d)
  \/ Reset

\* A request is answered or fails; intervals fire.  The user does as she likes.
Fairness == \A u \in Uploads : WF_vars(Answer(u)) /\ WF_vars(UpdateExpiry(u))

Spec == Init /\ [][Next]_vars /\ Fairness

-----------------------------------------------------------------------------
(***************************************************************************)
(* Properties                                                              *)
(***************************************************************************)

\* Types; and currentXhr never names a request that is over, whatever other
\* uploads do to it.
TypeOK ==
  /\ view \in {"upload", "progress", "result"}
  /\ {currentXhr, currentResult, expiryInterval, displayed} \subseteq Uploads \cup {None}
  /\ timers \subseteq Uploads /\ expired \subseteq Uploads
  /\ chooser \in BOOLEAN
  /\ upload \in [Uploads -> {"none", "sent", "stored", "failed", "aborted"}]
  /\ target \in [Deletes -> Uploads \cup {None}] /\ sent \subseteq Deletes
  /\ currentXhr # None => upload[currentXhr] = "sent"

\* The link on the screen is the link "delete now" would delete: late answers
\* of other uploads and deletes never leave a result view whose result is gone
\* or is not the one displayed.
ResultOnScreenIsCurrent ==
  view = "result" => currentResult # None /\ displayed = currentResult

\* Whatever order answers come in, at most one timer runs, it counts down the
\* link that is displayed, and it runs until that link has expired.
CountdownIsOfResult ==
  /\ timers = {expiryInterval} \ {None}
  /\ expiryInterval # None => expiryInterval = currentResult
  /\ currentResult # None => expiryInterval = currentResult \/ currentResult \in expired

\* The progress view always has an upload under way that "cancel" can abort.
ProgressCanBeCancelled ==
  view = "progress" => currentXhr # None /\ upload[currentXhr] = "sent"

\* The page does not stay in the progress view for ever.
ProgressEnds == view = "progress" ~> view # "progress"

=============================================================================
