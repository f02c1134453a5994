----------------------------- MODULE FrameQueue -----------------------------
(***************************************************************************)
(* The AI operations of the course board on the teaching frames of a       *)
(* design (tools/course_board.js): one frame, a queue of frames, one       *)
(* field's grammar, the verification of a whole frame, and their closing   *)
(* and cancelling while a request is on its way.  The teacher keeps typing *)
(* meanwhile.  Only one AI operation exists at a time.                     *)
(*                                                                         *)
(* A text is known by where it comes from: the stored design, a local fix, *)
(* the AI, or one of the texts the teacher types.  A field is its text and *)
(* its quality mark.                                                       *)
(***************************************************************************)
EXTENDS Faults, Sequences, FiniteSets

CONSTANTS Items,       \* the frames, in the order of the queue
          Fields,      \* the fields of a frame, in the order of the verification
          Typed,       \* bound: the texts the teacher types
          MaxStarted,  \* bound: operations and local checks started
          QueueFaults  \* bound: AI requests that fail

VARIABLES frames,      \* [item -> [field -> text and quality]]
          op,          \* the AI operation, None when there is none
          check,       \* the field whose local fixes wait for a confirmation
          used,        \* the texts typed so far
          started,     \* operations and local checks so far
          hand         \* ghost: [item -> [field -> what was typed there since the
                       \*         operation began, None if nothing was]]

frameQueueState == << frames, op, check, used, started, hand >>
frameQueueVars == << frameQueueState, faults >>

SetOf(s) == {s[i] : i \in 1..Len(s)}
Frames == SetOf(Items)
Keys == SetOf(Fields)

\* What the teacher types is not what the board or the AI writes, and no board is None.
ASSUME QueueAssumption ==
    /\ Typed \cap {"stored", "fixed", "ai"} = {}
    /\ None \notin [Frames -> [Keys -> [text : Typed \cup {"stored", "fixed", "ai"},
                                     quality : {"none", "local", "ai"}]]]

Field(text, quality) == [text |-> text, quality |-> quality]
Stored == [k \in Keys |-> Field("stored", "none")]
Nothing == [i \in Frames |-> [k \in Keys |-> None]]

FrameQueueInit ==
    /\ frames = [i \in Frames |-> Stored]
    /\ op = None
    /\ check = None
    /\ used = {}
    /\ started = 0
    /\ hand = Nothing
    /\ faults = 0

-----------------------------------------------------------------------------
(* The board an operation was started on: its frames, until it is replaced. *)

isUnchanged == op.context = frames

asking == check # None \/ (op # None /\ op.state = "asking")

\* The operation starts: what the teacher typed before is what it works on.
Starts(kind, item, key) ==
    /\ op = None /\ ~asking
    /\ started < MaxStarted /\ started' = started + 1
    /\ op' = [kind |-> kind, item |-> item, key |-> key, index |-> 1, state |-> "idle",
              cancelled |-> FALSE, close |-> FALSE, context |-> frames,
              original |-> frames, applied |-> [i \in Frames |-> None]]
    /\ hand' = Nothing
    /\ UNCHANGED <<frames, check, used, faults>>

-----------------------------------------------------------------------------
(* The teacher. *)

type(i, k, t) ==
    /\ ~asking
    /\ t \notin used
    /\ used' = used \cup {t}
    /\ frames' = [frames EXCEPT ![i][k] = Field(t, "none")]
    /\ hand' = [hand EXCEPT ![i][k] = t]
    /\ UNCHANGED <<op, check, started, faults>>

\* Another design is loaded, or the same one again: the operation's items are no
\* longer on the board.
reload ==
    /\ op # None
    /\ frames' = [i \in Frames |-> Stored]
    /\ hand' = Nothing
    /\ op' = [op EXCEPT !.context = None]
    /\ UNCHANGED <<check, used, started, faults>>

\* showTextQuality: without fixes the field is marked, with fixes it is asked.
showTextQuality(i, k) ==
    /\ ~asking
    /\ started < MaxStarted /\ started' = started + 1
    /\ \/ /\ frames' = [frames EXCEPT ![i][k].quality = "local"]
          /\ check' = check
       \/ /\ check' = <<i, k>>
          /\ frames' = frames
    /\ UNCHANGED <<op, used, hand, faults>>

applyLocalFixes(apply) ==
    /\ check # None
    /\ check' = None
    /\ IF apply
       THEN /\ frames' = [frames EXCEPT ![check[1]][check[2]] = Field("fixed", "local")]
            /\ hand' = [hand EXCEPT ![check[1]][check[2]] = None]
       ELSE UNCHANGED <<frames, hand>>
    /\ UNCHANGED <<op, used, started, faults>>

-----------------------------------------------------------------------------
(* Queues: what they wrote, and giving it back. *)

recordAppliedFrameSnapshot(i, frame) == [op.applied EXCEPT ![i] = frame]

\* Mutant of restoreQueueOwnedFrameFields: the whole frame is given back.
MutRestoreQueueOwnedFrameFields(current, applied, original) == original

\* Only the fields that still hold what the queue wrote get their old value back.
restoreQueueOwnedFrameFields(current, applied, original) ==
    [k \in Keys |-> IF current[k] = applied[k] THEN original[k] ELSE current[k]]

\* The frames after every entry of the queue is given back; a queue whose items are
\* off the board gives back to those items only.
restoreFrameSnapshot(shown, applied) ==
    [i \in Frames |-> IF applied[i] = None \/ op.context = None THEN shown[i]
                      ELSE restoreQueueOwnedFrameFields(shown[i], applied[i], op.original[i])]

Size == IF op.kind = "batch" THEN Len(Items) ELSE Len(Fields)

\* The queue ends: cancelled ones give back, closed ones keep.
Ended(shown, applied) ==
    /\ op' = None
    /\ frames' = IF op.cancelled THEN restoreFrameSnapshot(shown, applied) ELSE shown

-----------------------------------------------------------------------------
(* generateFrameForEntry, alone and in a queue. *)

fillSingleFrameWithAi(i) == Starts("single", i, None)

openFrameBatchQueue == Starts("batch", None, None)

\* The request of one entry.  "AI genera tutti" asks for the entries one after the
\* other, with nothing of the teacher in between, and closes the queue at its end.
generate ==
    /\ op # None /\ op.kind \in {"single", "batch"} /\ op.state = "idle"
    /\ op.index <= Size
    /\ IF isUnchanged
       THEN op' = [op EXCEPT !.state = "sent", !.cancelled = FALSE, !.close = FALSE]
       ELSE op' = None
    /\ UNCHANGED <<frames, check, used, started, hand, faults>>

generateFrameForEntry ==
    LET item == IF op.kind = "single" THEN op.item ELSE Items[op.index]
        frame == [k \in Keys |-> Field("ai", "none")]
        shown == [frames EXCEPT ![item] = frame]
        applied == recordAppliedFrameSnapshot(item, frame) IN
    /\ op # None /\ op.kind \in {"single", "batch"} /\ op.state = "sent"
    /\ isUnchanged
    /\ IF op.kind = "single"
       THEN frames' = shown /\ op' = None
       ELSE IF op.cancelled \/ op.close
       THEN Ended(shown, applied)
       ELSE /\ frames' = shown
            /\ op' = [op EXCEPT !.index = @ + 1, !.applied = applied, !.context = shown,
                                !.state = "idle"]
    /\ UNCHANGED <<check, used, started, hand, faults>>

\* The provider fails, or the board changed while it worked: the queue is over.
generateFails ==
    /\ op # None /\ op.state = "sent"
    /\ IF isUnchanged THEN Fault(QueueFaults) ELSE NoFault
    /\ Ended(frames, op.applied)
    /\ UNCHANGED <<check, used, started, hand>>

\* Closing keeps what was generated, cancelling gives it back; both wait for the
\* request that is on its way.  The last button pressed counts.
closeFrameBatch ==
    /\ op # None /\ op.kind \in {"batch", "verify"} /\ ~asking
    /\ IF op.state = "idle" THEN op' = None
       ELSE op' = [op EXCEPT !.close = TRUE, !.cancelled = IF op.kind = "batch" THEN FALSE ELSE @]
    /\ UNCHANGED <<frames, check, used, started, hand, faults>>

cancelFrameBatch ==
    /\ op # None /\ op.kind \in {"batch", "verify"} /\ ~asking
    /\ IF op.state = "idle"
       THEN /\ frames' = restoreFrameSnapshot(frames, op.applied)
            /\ op' = None
       ELSE /\ op' = [op EXCEPT !.cancelled = TRUE]
            /\ frames' = frames
    /\ UNCHANGED <<check, used, started, hand, faults>>

-----------------------------------------------------------------------------
(* Grammar of one field, and the verification of all the fields of a frame. *)

proofreadTextWithAi(i, k) ==
    /\ Starts("proofread", i, k)

sendProofread ==
    /\ op # None /\ op.kind = "proofread" /\ op.state = "idle"
    /\ op' = [op EXCEPT !.state = "sent"]
    /\ UNCHANGED <<frames, check, used, started, hand, faults>>

\* Nothing to correct marks the field; a correction is asked for.
proofreadAnswer ==
    /\ op # None /\ op.kind = "proofread" /\ op.state = "sent"
    /\ isUnchanged
    /\ \/ /\ frames' = [frames EXCEPT ![op.item][op.key].quality = "ai"]
          /\ op' = None
       \/ /\ frames' = frames
          /\ check = None
          /\ op' = [op EXCEPT !.state = "asking"]
    /\ UNCHANGED <<check, used, started, hand, faults>>

applyProofread(apply) ==
    /\ op # None /\ op.kind = "proofread" /\ op.state = "asking"
    /\ IF apply /\ isUnchanged
       THEN /\ frames' = [frames EXCEPT ![op.item][op.key] = Field("ai", "ai")]
            /\ hand' = [hand EXCEPT ![op.item][op.key] = None]
       ELSE UNCHANGED <<frames, hand>>
    /\ op' = None
    /\ UNCHANGED <<check, used, started, faults>>

verifyEntireFrame(i) == Starts("verify", i, None)

\* The local fixes of the field are written before its text is sent.
verifyNextFrameField(fixed) ==
    LET k == Fields[op.index]
        shown == [frames EXCEPT ![op.item][k] =
                    Field(IF fixed THEN "fixed" ELSE @.text, "local")] IN
    /\ op # None /\ op.kind = "verify" /\ op.state = "idle"
    /\ IF isUnchanged
       THEN /\ frames' = shown
            /\ op' = [op EXCEPT !.state = "sent", !.cancelled = FALSE,
                                !.context = shown,
                                !.applied = recordAppliedFrameSnapshot(op.item, shown[op.item])]
       ELSE op' = None /\ frames' = frames
    /\ UNCHANGED <<check, used, started, hand, faults>>

proofreadFrameFieldForBatch(corrected) ==
    LET k == Fields[op.index]
        shown == [frames EXCEPT ![op.item][k] =
                    Field(IF corrected THEN "ai" ELSE @.text, "ai")]
        applied == recordAppliedFrameSnapshot(op.item, shown[op.item]) IN
    /\ op # None /\ op.kind = "verify" /\ op.state = "sent"
    /\ isUnchanged
    /\ IF op.cancelled \/ op.close \/ op.index = Size
       THEN Ended(shown, applied)
       ELSE /\ frames' = shown
            /\ op' = [op EXCEPT !.index = @ + 1, !.applied = applied, !.context = shown,
                                !.state = "idle"]
    /\ UNCHANGED <<check, used, started, hand, faults>>

-----------------------------------------------------------------------------
FrameQueueNext ==
    \/ \E i \in Frames, k \in Keys : \/ \E t \in Typed : type(i, k, t)
                                     \/ showTextQuality(i, k)
                                     \/ proofreadTextWithAi(i, k)
    \/ reload
    \/ \E b \in BOOLEAN : applyLocalFixes(b) \/ applyProofread(b)
                          \/ proofreadFrameFieldForBatch(b) \/ verifyNextFrameField(b)
    \/ \E i \in Frames : fillSingleFrameWithAi(i) \/ verifyEntireFrame(i)
    \/ openFrameBatchQueue
    \/ generate \/ generateFrameForEntry \/ generateFails
    \/ closeFrameBatch \/ cancelFrameBatch
    \/ sendProofread \/ proofreadAnswer

FrameQueueSpec == FrameQueueInit /\ [][FrameQueueNext]_frameQueueVars

-----------------------------------------------------------------------------
\* What the teacher types while an AI operation is under way stays: neither a late
\* answer, nor the next field of a queue, nor giving back a cancelled queue replaces it.
HandEditsSurvive ==
    \A i \in Frames, k \in Keys : hand[i][k] # None => frames[i][k].text = hand[i][k]
=============================================================================
