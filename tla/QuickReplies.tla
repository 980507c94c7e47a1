----------------------------- MODULE QuickReplies -----------------------------
(***************************************************************************)
(* The quick replies of one user (quick-reply.service.ts), whose images    *)
(* are kept by the media provider (cloudinary.service.ts).                 *)
(*                                                                         *)
(* The image is uploaded before the document is written, and what the      *)
(* write replaced is destroyed after it.  Each step may fail, and an       *)
(* update may take effect although its answer is lost.  Texts are left     *)
(* out, the unique shortcut is not; each request uploads an image of its   *)
(* own, which has the request's name.                                      *)
(***************************************************************************)
EXTENDS Naturals, FiniteSets

CONSTANTS
  Writers,   \* requests
  Shortcuts, \* shortcuts of the replies, one reply each
  NoImage

ASSUME ImageAssumption == NoImage \notin Writers /\ Shortcuts # {}

VARIABLES
  replies,  \* QuickReply documents: none, or one with an image
  images,   \* what the provider keeps
  writer,   \* a request: its control point, its reply, and what it will destroy
  unsure,   \* history: images whose write took effect without an answer
  leftovers \* history: a process ended, or the provider refused to destroy

replyVars == <<replies, images, writer, unsure, leftovers>>

NoReply == [exists |-> FALSE, image |-> NoImage]
WritePoints == {"new", "upload", "create", "update", "destroy", "over"}

\* The types of the documents and of the requests.
RepliesTypeOK ==
  /\ replies \in [Shortcuts -> [exists : BOOLEAN, image : Writers \cup {NoImage}]]
  /\ images \subseteq Writers /\ unsure \subseteq Writers
  /\ writer \in [Writers -> [at : WritePoints, of : Shortcuts, op : {"create", "update"},
                             uploads : BOOLEAN, victim : Writers \cup {NoImage}]]
  /\ leftovers \in BOOLEAN

RepliesInit ==
  /\ replies = [s \in Shortcuts |-> NoReply]
  /\ images = {} /\ unsure = {}
  /\ writer \in [Writers -> {[at |-> "new", of |-> CHOOSE s \in Shortcuts : TRUE, op |-> "create",
                              uploads |-> FALSE, victim |-> NoImage]}]
  /\ leftovers = FALSE

WriterGoto(k, point) == writer' = [writer EXCEPT ![k].at = point]
Image(k) == IF writer[k].uploads THEN k ELSE NoImage

\* destroyWithoutBreakingPersistence comes next, if there is an image.
ThenDestroy(k, image) ==
  writer' = [writer EXCEPT ![k].at = IF image = NoImage THEN "over" ELSE "destroy", ![k].victim = image]
-----------------------------------------------------------------------------
\* createQuickReply, and updateQuickReply of a reply that exists.
AskReply(k, op, s, uploads) ==
  /\ writer[k].at = "new"
  /\ writer' = [writer EXCEPT ![k] =
       [at |-> IF op = "update" /\ ~replies[s].exists THEN "over" ELSE IF uploads THEN "upload" ELSE op,
        of |-> s, op |-> op, uploads |-> uploads, victim |-> NoImage]]
  /\ UNCHANGED <<replies, images, unsure, leftovers>>

\* uploadImage.
Upload(k) ==
  /\ writer[k].at = "upload"
  /\ images' = images \cup {k}
  /\ WriterGoto(k, writer[k].op)
  /\ UNCHANGED <<replies, unsure, leftovers>>

\* The provider refuses the image, or its answer makes no sense.
UploadFails(k) ==
  /\ writer[k].at = "upload"
  /\ images' \in {images, images \cup {k}}
  /\ leftovers' = TRUE
  /\ WriterGoto(k, "over")
  /\ UNCHANGED <<replies, unsure>>

CreateReply(k) ==
  LET s == writer[k].of IN
  /\ writer[k].at = "create" /\ ~replies[s].exists
  /\ replies' = [replies EXCEPT ![s] = [exists |-> TRUE, image |-> Image(k)]]
  /\ WriterGoto(k, "over")
  /\ UNCHANGED <<images, unsure, leftovers>>

\* As a mutant of Replaced: what is destroyed is the image just stored.
ReplacedByNew(k, image) == IF image = NoImage THEN NoImage ELSE Image(k)

\* updateQuickReply destroys the image of the document it replaced, if it
\* stored one itself.
Replaced(k, image) == IF writer[k].uploads THEN image ELSE NoImage

UpdateReply(k) ==
  LET s == writer[k].of IN
  /\ writer[k].at = "update" /\ replies[s].exists
  /\ replies' = IF writer[k].uploads THEN [replies EXCEPT ![s].image = k] ELSE replies
  /\ ThenDestroy(k, Replaced(k, replies[s].image))
  /\ UNCHANGED <<images, unsure, leftovers>>

\* A duplicate shortcut, a reply that is gone, or an error: the catch
\* destroys the new image.
WriteFails(k) ==
  /\ writer[k].at \in {"create", "update"}
  /\ ThenDestroy(k, Image(k))
  /\ UNCHANGED <<replies, images, unsure, leftovers>>

\* The same, but the write took effect before its answer was lost.
AnswerIsLost(k) ==
  LET s == writer[k].of IN
  /\ \/ writer[k].at = "create" /\ ~replies[s].exists
     \/ writer[k].at = "update" /\ replies[s].exists
  /\ writer[k].uploads
  /\ replies' = [replies EXCEPT ![s] = [exists |-> TRUE, image |-> k]]
  /\ unsure' = unsure \cup {k}
  /\ leftovers' = TRUE
  /\ ThenDestroy(k, k)
  /\ UNCHANGED images

\* deleteQuickReply.
DeleteReply(k, s) ==
  /\ writer[k].at = "new"
  /\ replies' = [replies EXCEPT ![s] = NoReply]
  /\ ThenDestroy(k, replies[s].image)
  /\ UNCHANGED <<images, unsure, leftovers>>

\* destroyMedia; its error is logged.
Destroy(k) ==
  /\ writer[k].at = "destroy"
  /\ \/ images' = images \ {writer[k].victim} /\ UNCHANGED leftovers
     \/ leftovers' = TRUE /\ UNCHANGED images
  /\ WriterGoto(k, "over")
  /\ UNCHANGED <<replies, unsure>>

\* The process ends.
WriterDies(k) ==
  /\ writer[k].at \in {"upload", "create", "update", "destroy"}
  /\ leftovers' = TRUE
  /\ WriterGoto(k, "over")
  /\ UNCHANGED <<replies, images, unsure>>

WriterStep(k) ==
  \/ \E s \in Shortcuts : \/ DeleteReply(k, s)
                          \/ \E op \in {"create", "update"}, u \in BOOLEAN : AskReply(k, op, s, u)
  \/ Upload(k) \/ UploadFails(k) \/ CreateReply(k) \/ UpdateReply(k)
  \/ WriteFails(k) \/ AnswerIsLost(k) \/ Destroy(k) \/ WriterDies(k)

RepliesNext == \E k \in Writers : WriterStep(k)

RepliesSpec == RepliesInit /\ [][RepliesNext]_replyVars
-----------------------------------------------------------------------------
(* What must hold.                                                          *)

\* quick-reply.service.ts:85, :161: media is cleaned up when the document
\* has been decided.  The image of a reply is at the provider, unless its write
\* went unanswered; and when every request ended well, nothing else is.
ImagesAreStored ==
  /\ \A s \in Shortcuts : replies[s].image \in images \cup unsure \cup {NoImage}
  /\ (~leftovers /\ \A k \in Writers : writer[k].at \in {"new", "over"})
       => images \subseteq {replies[s].image : s \in Shortcuts}
=============================================================================
