-------------------------- MODULE UpdateClientProofs --------------------------
(***************************************************************************)
(* What firmware updates guarantee, for any images, sizes and sector        *)
(* length.  First the staging area of OtaStaging.tla, whoever writes it: its *)
(* types; that the metadata never vouches for an image that is not there.   *)
(* Then the worker of UpdateClient.tla, whose steps are steps of the staging *)
(* area, but for its return to the queue: what it says of a command, which  *)
(* release it checks an update against, how it cuts a download, and what it *)
(* installs, if the handshakes of an update outlast the delay of the last.  *)
(***************************************************************************)
EXTENDS UpdateClient, SequenceTheorems, TLAPS

\* While a chunk is written its session is open, and the chunk is the next one.
WritingInv ==
  at \in {"erase", "program", "verify"} =>
    /\ session.active
    /\ chunk.offset = session.received
    /\ chunk.offset < Size[session.image]

\* An open session has no metadata beside it until finalize has written its own, for
\* an image that was compared with what is in flash.
StagingInv ==
  /\ session.active /\ at # "close" => metadata = None
  /\ at = "open" => metadata = None
  /\ at \in {"erase_metadata", "write_metadata"} =>
       session.active /\ Matches(staged, image)
  /\ StagedIsVerified

\* What has been copied is the image; outside a copy the slot holds a whole one.
PrimaryInv ==
  /\ applying = "copy" =>
       /\ copied <= Size[params]
       /\ \A o \in 0..(copied - 1) : primary[o] = params
       /\ copied = 0 => \E i \in Images \ Containers : Matches(primary, i)
  /\ RunsWholeImage

\* What is copied is an application image that is in the staging area.
CopyInv ==
  applying \in {"delay", "copy"} => params \notin Containers /\ Matches(staged, params)

\* Every chunk of every image has its place in the staging area.
LEMMA OffsetsOfImage ==
  ASSUME NEW i \in Images, NEW o \in 0..(Size[i] - 1)
  PROVE  o \in Offsets
BY DEF Offsets

\* Sizes are positive numbers and None is no image: the assumptions in one place.
LEMMA Constants ==
  /\ \A i \in Images : Size[i] \in Nat /\ Size[i] > 0
  /\ None \notin Images
  /\ "blank" \notin Images /\ "bad" \notin Images
  /\ 0 \in Nat
  /\ Offsets \subseteq Nat
BY ImagesAssumption, SizeAssumption, NoneAssumption DEF Offsets

\* Types: the initial state.
LEMMA TypeInit == Init => TypeOK /\ WritingInv
BY Constants, ImagesAssumption, OffsetsOfImage
   DEF Init, TypeOK, WritingInv, NoSession, Places, Offsets

\* Types: every step keeps them, given that a chunk being written is the next one.
LEMMA TypeStep ==
  ASSUME TypeOK, WritingInv, [Next]_vars
  PROVE  TypeOK'
<1> USE Constants, WriterAssumption
    DEF flash, writer, apply, vars, Step, Download, GiveUp, Staged, Scheduled, NoSession,
        Complete, Applicable, Restart, Places, TypeOK, WritingInv
<1>1. CASE \E i \in Images : Begin(i)  BY <1>1 DEF Begin
<1>2. CASE \E i \in Images, o \in Offsets : Chunk(i, o)  BY <1>2 DEF Chunk
<1>3. CASE Finalize  BY <1>3 DEF Finalize
<1>4. CASE Abort  BY <1>4 DEF Abort
<1>5. CASE Apply  BY <1>5 DEF Apply
<1>6. CASE InvalidateFails  BY <1>6 DEF InvalidateFails
<1>7. CASE Invalidate  BY <1>7 DEF Invalidate
<1>8. CASE Open  BY <1>8 DEF Open
<1>9. CASE Erase  BY <1>9 DEF Erase
<1>10. CASE Program  BY <1>10 DEF Program
<1>11. CASE FlashFails  BY <1>11 DEF FlashFails
<1>12. CASE Verify  BY <1>12 DEF Verify
<1>13. CASE VerifyFails  BY <1>13 DEF VerifyFails
<1>14. CASE FinalizeFails  BY <1>14 DEF FinalizeFails
<1>15. CASE EraseMetadata  BY <1>15 DEF EraseMetadata
<1>16. CASE WriteMetadata  BY <1>16 DEF WriteMetadata
<1>17. CASE MetadataFails  BY <1>17 DEF MetadataFails
<1>18. CASE Close  BY <1>18 DEF Close
<1>19. CASE AbortErase  BY <1>19 DEF AbortErase
<1>20. CASE ApplyRefused  BY <1>20 DEF ApplyRefused
<1>21. CASE Schedule  BY <1>21 DEF Schedule
<1>22. CASE ApplyStarts  BY <1>22 DEF ApplyStarts
<1>23. CASE CopyChunk
  <2>1. copied \in Offsets
    BY <1>23, OffsetsOfImage DEF CopyChunk, TypeOK
  <2>2. staged[copied] \in Images \union {"blank", "bad"}
    BY <2>1 DEF TypeOK
  <2>3. primary' \in [Offsets -> Images \union {"blank", "bad"}]
    BY <1>23, <2>2 DEF CopyChunk, TypeOK
  <2>4. QED
    BY <1>23, <2>3 DEF CopyChunk, writer, TypeOK, Places
<1>24. CASE Reboot  BY <1>24 DEF Reboot
<1>25. CASE PowerFails  BY <1>25 DEF PowerFails
<1>26. CASE UNCHANGED vars  BY <1>26
<1>27. QED
  BY <1>1, <1>2, <1>3, <1>4, <1>5, <1>6, <1>7, <1>8, <1>9, <1>10, <1>11, <1>12, <1>13,
     <1>14, <1>15, <1>16, <1>17, <1>18, <1>19, <1>20, <1>21, <1>22, <1>23, <1>24, <1>25, <1>26
  DEF Next, Request, Handler, ApplyTask

\* Every step keeps the chunk being written the next one.
LEMMA WritingStep ==
  ASSUME TypeOK, WritingInv, [Next]_vars
  PROVE  WritingInv'
<1> USE Constants, WriterAssumption
    DEF flash, writer, apply, vars, Step, Download, GiveUp, Staged, Scheduled, NoSession,
        Complete, Applicable, Restart, TypeOK, WritingInv
<1>1. CASE \E i \in Images : Begin(i)  BY <1>1 DEF Begin
<1>2. CASE \E i \in Images, o \in Offsets : Chunk(i, o)  BY <1>2 DEF Chunk
<1>3. CASE Finalize  BY <1>3 DEF Finalize
<1>4. CASE Abort  BY <1>4 DEF Abort
<1>5. CASE Apply  BY <1>5 DEF Apply
<1>6. CASE InvalidateFails  BY <1>6 DEF InvalidateFails
<1>7. CASE Invalidate  BY <1>7 DEF Invalidate
<1>8. CASE Open  BY <1>8 DEF Open
<1>9. CASE Erase  BY <1>9 DEF Erase
<1>10. CASE Program  BY <1>10 DEF Program
<1>11. CASE FlashFails  BY <1>11 DEF FlashFails
<1>12. CASE Verify  BY <1>12 DEF Verify
<1>13. CASE VerifyFails  BY <1>13 DEF VerifyFails
<1>14. CASE FinalizeFails  BY <1>14 DEF FinalizeFails
<1>15. CASE EraseMetadata  BY <1>15 DEF EraseMetadata
<1>16. CASE WriteMetadata  BY <1>16 DEF WriteMetadata
<1>17. CASE MetadataFails  BY <1>17 DEF MetadataFails
<1>18. CASE Close  BY <1>18 DEF Close
<1>19. CASE AbortErase  BY <1>19 DEF AbortErase
<1>20. CASE ApplyRefused  BY <1>20 DEF ApplyRefused
<1>21. CASE Schedule  BY <1>21 DEF Schedule
<1>22. CASE ApplyStarts  BY <1>22 DEF ApplyStarts
<1>23. CASE CopyChunk  BY <1>23 DEF CopyChunk
<1>24. CASE Reboot  BY <1>24 DEF Reboot
<1>25. CASE PowerFails  BY <1>25 DEF PowerFails
<1>26. CASE UNCHANGED vars  BY <1>26
<1>27. QED
  BY <1>1, <1>2, <1>3, <1>4, <1>5, <1>6, <1>7, <1>8, <1>9, <1>10, <1>11, <1>12, <1>13,
     <1>14, <1>15, <1>16, <1>17, <1>18, <1>19, <1>20, <1>21, <1>22, <1>23, <1>24, <1>25, <1>26
  DEF Next, Request, Handler, ApplyTask

\* Staging: the initial state.
LEMMA StagingInit == Init => StagingInv
BY Constants DEF Init, StagingInv, StagedIsVerified, NoSession

\* Staging: every step keeps the metadata truthful.
LEMMA StagingStep ==
  ASSUME TypeOK, WritingInv, StagingInv, [Next]_vars
  PROVE  StagingInv'
<1> USE Constants, WriterAssumption
    DEF flash, writer, apply, vars, Step, Download, GiveUp, Staged, Scheduled, NoSession,
        Complete, Applicable, Restart, TypeOK, WritingInv, StagingInv, StagedIsVerified,
        Matches
<1>1. CASE \E i \in Images : Begin(i)  BY <1>1 DEF Begin
<1>2. CASE \E i \in Images, o \in Offsets : Chunk(i, o)  BY <1>2 DEF Chunk
<1>3. CASE Finalize  BY <1>3 DEF Finalize
<1>4. CASE Abort  BY <1>4 DEF Abort
<1>5. CASE Apply  BY <1>5 DEF Apply
<1>6. CASE InvalidateFails  BY <1>6 DEF InvalidateFails
<1>7. CASE Invalidate  BY <1>7 DEF Invalidate
<1>8. CASE Open  BY <1>8 DEF Open
<1>9. CASE Erase  BY <1>9 DEF Erase
<1>10. CASE Program  BY <1>10 DEF Program
<1>11. CASE FlashFails  BY <1>11 DEF FlashFails
<1>12. CASE Verify  BY <1>12 DEF Verify
<1>13. CASE VerifyFails  BY <1>13 DEF VerifyFails
<1>14. CASE FinalizeFails  BY <1>14 DEF FinalizeFails
<1>15. CASE EraseMetadata  BY <1>15 DEF EraseMetadata
<1>16. CASE WriteMetadata  BY <1>16 DEF WriteMetadata
<1>17. CASE MetadataFails  BY <1>17 DEF MetadataFails
<1>18. CASE Close  BY <1>18 DEF Close
<1>19. CASE AbortErase  BY <1>19 DEF AbortErase
<1>20. CASE ApplyRefused  BY <1>20 DEF ApplyRefused
<1>21. CASE Schedule  BY <1>21 DEF Schedule
<1>22. CASE ApplyStarts  BY <1>22 DEF ApplyStarts
<1>23. CASE CopyChunk  BY <1>23 DEF CopyChunk
<1>24. CASE Reboot  BY <1>24 DEF Reboot
<1>25. CASE PowerFails  BY <1>25 DEF PowerFails
<1>26. CASE UNCHANGED vars  BY <1>26
<1>27. QED
  BY <1>1, <1>2, <1>3, <1>4, <1>5, <1>6, <1>7, <1>8, <1>9, <1>10, <1>11, <1>12, <1>13,
     <1>14, <1>15, <1>16, <1>17, <1>18, <1>19, <1>20, <1>21, <1>22, <1>23, <1>24, <1>25, <1>26
  DEF Next, Request, Handler, ApplyTask

\* The slot: the initial state.
LEMMA PrimaryInit == Init => PrimaryInv
BY Constants, ImagesAssumption, OffsetsOfImage
   DEF Init, PrimaryInv, RunsWholeImage, Matches

\* The slot: the copy makes a whole image of a whole image.
LEMMA PrimaryStep ==
  ASSUME TypeOK, CopyInv, PrimaryInv, [Next]_vars
  PROVE  PrimaryInv'
<1> USE Constants
    DEF flash, writer, apply, vars, Step, Download, GiveUp, Staged, Scheduled, NoSession,
        Complete, Applicable, Restart, TypeOK, Matches, CopyInv, PrimaryInv, RunsWholeImage
<1>1. CASE \E i \in Images : Begin(i)  BY <1>1 DEF Begin
<1>2. CASE \E i \in Images, o \in Offsets : Chunk(i, o)  BY <1>2 DEF Chunk
<1>3. CASE Finalize  BY <1>3 DEF Finalize
<1>4. CASE Abort  BY <1>4 DEF Abort
<1>5. CASE Apply  BY <1>5 DEF Apply
<1>6. CASE InvalidateFails  BY <1>6 DEF InvalidateFails
<1>7. CASE Invalidate  BY <1>7 DEF Invalidate
<1>8. CASE Open  BY <1>8 DEF Open
<1>9. CASE Erase  BY <1>9 DEF Erase
<1>10. CASE Program  BY <1>10 DEF Program
<1>11. CASE FlashFails  BY <1>11 DEF FlashFails
<1>12. CASE Verify  BY <1>12 DEF Verify
<1>13. CASE VerifyFails  BY <1>13 DEF VerifyFails
<1>14. CASE FinalizeFails  BY <1>14 DEF FinalizeFails
<1>15. CASE EraseMetadata  BY <1>15 DEF EraseMetadata
<1>16. CASE WriteMetadata  BY <1>16 DEF WriteMetadata
<1>17. CASE MetadataFails  BY <1>17 DEF MetadataFails
<1>18. CASE Close  BY <1>18 DEF Close
<1>19. CASE AbortErase  BY <1>19 DEF AbortErase
<1>20. CASE ApplyRefused  BY <1>20 DEF ApplyRefused
<1>21. CASE Schedule  BY <1>21 DEF Schedule
<1>22. CASE ApplyStarts  BY <1>22 DEF ApplyStarts
<1>23. CASE CopyChunk
  <2>1. copied \in 0..(Size[params] - 1) /\ copied \in Offsets
    BY <1>23, OffsetsOfImage DEF CopyChunk, TypeOK
  <2>2. staged[copied] = params
    BY <1>23, <2>1 DEF CopyChunk, CopyInv, Matches, TypeOK
  <2>3. \A o \in 0..copied : primary'[o] = params
    <3>1. copied \in DOMAIN primary /\ primary'[copied] = params
      BY <1>23, <2>1, <2>2 DEF CopyChunk, TypeOK
    <3>2. QED
      BY <1>23, <2>1, <3>1 DEF CopyChunk, PrimaryInv, TypeOK
  <2>4. copied' <= Size[params'] /\ copied' > 0 /\ copied' - 1 = copied /\ applying' = "copy"
    BY <1>23, <2>1 DEF CopyChunk, TypeOK
  <2>5. QED
    BY <1>23, <2>3, <2>4 DEF CopyChunk, PrimaryInv, RunsWholeImage
<1>24. CASE Reboot
  <2>1. params \in Images \ Containers
    BY <1>24 DEF Reboot, TypeOK, CopyInv
  <2>2. Matches(primary', params)
    BY <1>24 DEF Reboot, PrimaryInv, Matches
  <2>3. QED
    BY <1>24, <2>1, <2>2 DEF Reboot, PrimaryInv, RunsWholeImage
<1>25. CASE PowerFails  BY <1>25 DEF PowerFails
<1>26. CASE UNCHANGED vars  BY <1>26
<1>27. QED
  BY <1>1, <1>2, <1>3, <1>4, <1>5, <1>6, <1>7, <1>8, <1>9, <1>10, <1>11, <1>12, <1>13,
     <1>14, <1>15, <1>16, <1>17, <1>18, <1>19, <1>20, <1>21, <1>22, <1>23, <1>24, <1>25, <1>26
  DEF Next, Request, Handler, ApplyTask

\* The types hold and the chunk being written is the next one of an open session.
THEOREM TypeCorrect == Spec => []TypeOK
<1>1. Init => TypeOK /\ WritingInv
  BY TypeInit
<1>2. TypeOK /\ WritingInv /\ [Next]_vars => (TypeOK /\ WritingInv)'
  BY TypeStep, WritingStep
<1>3. QED
  BY <1>1, <1>2, PTL DEF Spec

\* Metadata in flash vouches for an image only while all of it is staged, for either
\* writer and whatever fails.
THEOREM StagedVerified == Spec => []StagedIsVerified
<1> DEFINE Inv == TypeOK /\ WritingInv /\ StagingInv
<1>1. Init => Inv
  BY TypeInit, StagingInit
<1>2. Inv /\ [Next]_vars => Inv'
  BY TypeStep, WritingStep, StagingStep
<1>3. Inv => StagedIsVerified
  BY DEF StagingInv
<1>4. QED
  BY <1>1, <1>2, <1>3, PTL DEF Spec

-----------------------------------------------------------------------------
(* The worker.  In its module it is the writer of the staging area. *)

\* Where the worker is in its own code and in the staging area's.
PhaseInv ==
  /\ job \in {"wait", "check"} => at = "idle"
  /\ job = "connect" => at \in {"invalidate", "open", "download"} /\ fill = 0
  /\ job = "connect" /\ at = "download" => session.received = 0
  /\ job \in {"body", "flush"} => at = "download"

\* An update is staged with the size and the CRC of the release it was started for.
ReleaseInv ==
  /\ ManifestIsWhole
  /\ at \in {"invalidate", "open"} => image = manifest.size
  /\ at \in {"download", "erase", "program", "verify"} =>
       session.active /\ session.image = manifest.size

\* A file of the announced length is in the staging area but for what the buffer holds:
\* less than a chunk while it is filled, a chunk or the end of the file while it is flushed.
Buffering == body.got = Written + fill /\ fill < ChunkUnits /\ body.got < Total
AllWritten == body.got = Total /\ fill = 0 /\ session.received = Size[manifest.size]
Flushing == body.got = Written + fill /\ fill > 0 /\ body.got <= Total /\ FlushDue(fill)
BufferInv ==
  Length = Total =>
    /\ job = "body" => Buffering \/ AllWritten
    /\ job = "flush" \/ at \in {"erase", "program", "verify"} => Flushing

\* While the apply task waits, the worker may be back at its queue, and begin another
\* update, but it has not received any of it.
QueueInv ==
  /\ at = "schedule" => applying = "no" /\ params \notin Containers /\ Matches(staged, params)
  /\ applying = "delay" =>
       job \notin {"body", "flush"} /\ at \notin {"erase", "program", "verify"}

\* A step of the worker is a step of the staging area, or its return to the queue, which
\* leaves the staging area alone.
LEMMA ClientIsWriter ==
  ASSUME TypeOK, ClientTypeOK, [ClientNext]_clientVars
  PROVE  [Next]_vars \/ (at = "done" /\ at' = "idle" /\ UNCHANGED <<session, flash, image,
        chunk, apply>>)
<1>1. ASSUME StartApply PROVE \E i \in Images : Begin(i)
  BY <1>1 DEF StartApply, ClientTypeOK
<1>2. ASSUME Flush PROVE \E i \in Images, o \in Offsets : Chunk(i, o)
  <2>1. Chunk(body.of, session.received) /\ body.of \in Images
    BY <1>2 DEF Flush, ClientTypeOK
  <2>2. session.received \in Offsets
    <3>1. session.image \in Images /\ session.received \in 0..(Size[session.image] - 1)
      BY <2>1, Constants DEF Chunk, TypeOK
    <3>. QED  BY <3>1, OffsetsOfImage
  <2>. QED  BY <2>1, <2>2
<1>. USE DEF Next, Request, Handler, ApplyTask
<1>3. CASE AskCheck \/ AskApply \/ NoteCheck \/ NoteApply
  BY <1>3 DEF AskCheck, AskApply, NoteCheck, NoteApply
<1>4. CASE StartCheck \/ CheckFails \/ NothingToApply
  BY <1>4 DEF StartCheck, CheckFails, NothingToApply
<1>5. CASE \E i \in Images, found \in SUBSET Fields : CheckReads(i, found)
  BY <1>5 DEF CheckReads
<1>6. CASE StartApply \/ Flush  BY <1>1, <1>2, <1>6
<1>7. CASE \E i \in Images : Answer(i)  BY <1>7 DEF Answer
<1>8. CASE \E n \in 1..ChunkUnits : Read(n)  BY <1>8 DEF Read
<1>9. CASE Flushed \/ GiveUpDownload \/ EndDownload
  BY <1>9 DEF Flushed, GiveUpDownload, EndDownload
<1>10. CASE StagingWorks  BY <1>10 DEF StagingWorks
<1>11. CASE StagingFails
  <2>1. InvalidateFails \/ MetadataFails \/ AbortErase \/ ApplyRefused \/ FinalizeFails
    BY <1>11 DEF StagingFails
  <2>. QED  BY <2>1
<1>12. CASE StagedImage \/ ApplyStaged \/ ScheduleApply
  BY <1>12 DEF StagedImage, ApplyStaged, ScheduleApply
<1>13. CASE Return  BY <1>13 DEF Return, Step
<1>14. CASE TaskStep  BY <1>14 DEF TaskStep
<1>15. CASE PowerCycle  BY <1>15 DEF PowerCycle
<1>16. CASE UNCHANGED clientVars  BY <1>16 DEF clientVars
<1>. QED
  BY <1>3, <1>4, <1>5, <1>6, <1>7, <1>8, <1>9, <1>10, <1>11, <1>12, <1>13, <1>14, <1>15, <1>16
  DEF ClientNext

\* So it keeps what the staging area keeps.
LEMMA ClientStagingStep ==
  ASSUME TypeOK, WritingInv, StagingInv, ClientTypeOK, [ClientNext]_clientVars
  PROVE  TypeOK' /\ WritingInv' /\ StagingInv'
<1>1. CASE [Next]_vars  BY <1>1, TypeStep, WritingStep, StagingStep
<1>2. CASE at = "done" /\ at' = "idle" /\ UNCHANGED <<session, flash, image, chunk, apply>>
  BY <1>2
  DEF flash, apply, TypeOK, Places, WritingInv, StagingInv, StagedIsVerified, Matches
<1>. QED  BY <1>1, <1>2, ClientIsWriter

\* Where the worker is: every step.
LEMMA PhaseStep ==
  ASSUME Writer = "client", ClientTypeOK, PhaseInv, [ClientNext]_clientVars
  PROVE  PhaseInv'
<1>. USE WriterAssumption
    DEF vars, flash, writer, apply, status, download, client, Step, Download, GiveUp, Staged,
        Scheduled, Restart, NoSession, PhaseInv, Applying
<1>1. CASE AskCheck  BY <1>1 DEF AskCheck
<1>2. CASE AskApply  BY <1>2 DEF AskApply
<1>3. CASE NoteCheck  BY <1>3 DEF NoteCheck
<1>4. CASE NoteApply  BY <1>4 DEF NoteApply
<1>5. CASE StartCheck  BY <1>5 DEF StartCheck, Take
<1>6. CASE CheckFails  BY <1>6 DEF CheckFails
<1>7. CASE \E i \in Images, found \in SUBSET Fields : CheckReads(i, found)
  BY <1>7 DEF CheckReads, Parsed, Fields
<1>8. CASE NothingToApply  BY <1>8 DEF NothingToApply, Take, Fails
<1>9. CASE StartApply  BY <1>9 DEF StartApply, Take, Begin
<1>10. CASE \E i \in Images : Answer(i)  BY <1>10 DEF Answer
<1>11. CASE \E n \in 1..ChunkUnits : Read(n)  BY <1>11 DEF Read
<1>12. CASE Flush  BY <1>12 DEF Flush, Chunk
<1>13. CASE Flushed  BY <1>13 DEF Flushed, Verify
<1>14. CASE GiveUpDownload  BY <1>14 DEF GiveUpDownload, Abort
<1>15. CASE EndDownload  BY <1>15 DEF EndDownload, Finalize
<1>16. CASE StagingWorks
  BY <1>16 DEF StagingWorks, Invalidate, Open, Erase, Program, FlashFails, VerifyFails,
        EraseMetadata, WriteMetadata
<1>17. CASE StagingFails
  BY <1>17 DEF StagingFails, Fails, InvalidateFails, MetadataFails, AbortErase, ApplyRefused,
        FinalizeFails
<1>18. CASE StagedImage  BY <1>18 DEF StagedImage, Close
<1>19. CASE ApplyStaged  BY <1>19 DEF ApplyStaged, Apply
<1>20. CASE ScheduleApply  BY <1>20 DEF ScheduleApply, Schedule, Fails
<1>21. CASE Return  BY <1>21 DEF Return
<1>22. CASE TaskStep  BY <1>22 DEF TaskStep, ApplyStarts, CopyChunk
<1>23. CASE PowerCycle  BY <1>23 DEF PowerCycle, Reboot, PowerFails
<1>24. CASE UNCHANGED clientVars  BY <1>24 DEF clientVars
<1>. QED
  BY <1>1, <1>2, <1>3, <1>4, <1>5, <1>6, <1>7, <1>8, <1>9, <1>10, <1>11, <1>12, <1>13,
     <1>14, <1>15, <1>16, <1>17, <1>18, <1>19, <1>20, <1>21, <1>22, <1>23, <1>24
  DEF ClientNext

\* The release: every step.
LEMMA ReleaseStep ==
  ASSUME Writer = "client", TypeOK, WritingInv, ClientTypeOK, PhaseInv, ReleaseInv,
         [ClientNext]_clientVars
  PROVE  ReleaseInv'
<1>. USE Constants
    DEF vars, flash, writer, apply, status, download, client, Step, Download, GiveUp, Staged,
        Scheduled, Restart, NoSession, PhaseInv, ReleaseInv, ManifestIsWhole, WritingInv,
        TypeOK, Received, Complete, Applicable
<1>1. CASE AskCheck  BY <1>1 DEF AskCheck
<1>2. CASE AskApply  BY <1>2 DEF AskApply
<1>3. CASE NoteCheck  BY <1>3 DEF NoteCheck
<1>4. CASE NoteApply  BY <1>4 DEF NoteApply
<1>5. CASE StartCheck  BY <1>5 DEF StartCheck, Take
<1>6. CASE CheckFails  BY <1>6 DEF CheckFails
<1>7. CASE \E i \in Images, found \in SUBSET Fields : CheckReads(i, found)
  <2>1. PICK i \in Images, found \in SUBSET Fields : CheckReads(i, found)  BY <1>7
  <2>2. manifest' = Parsed(i, found) /\ at = "idle" /\ UNCHANGED vars  BY <2>1 DEF CheckReads
  <2>3. found = Fields => "size" \in found /\ "crc" \in found  BY DEF Fields
  <2>4. ManifestIsWhole'  BY <2>2, <2>3 DEF Parsed
  <2>. QED  BY <2>2, <2>4
<1>8. CASE NothingToApply  BY <1>8 DEF NothingToApply, Take, Fails
<1>9. CASE StartApply  BY <1>9 DEF StartApply, Take, Begin
<1>10. CASE \E i \in Images : Answer(i)  BY <1>10 DEF Answer
<1>11. CASE \E n \in 1..ChunkUnits : Read(n)  BY <1>11 DEF Read
<1>12. CASE Flush  BY <1>12 DEF Flush, Chunk
<1>13. CASE Flushed  BY <1>13 DEF Flushed, Verify
<1>14. CASE GiveUpDownload  BY <1>14 DEF GiveUpDownload, Abort
<1>15. CASE EndDownload  BY <1>15 DEF EndDownload, Finalize
<1>16. CASE StagingWorks
  BY <1>16 DEF StagingWorks, Invalidate, Open, Erase, Program, FlashFails, VerifyFails,
        EraseMetadata, WriteMetadata
<1>17. CASE StagingFails
  BY <1>17 DEF StagingFails, Fails, InvalidateFails, MetadataFails, AbortErase, ApplyRefused,
        FinalizeFails
<1>18. CASE StagedImage  BY <1>18 DEF StagedImage, Close
<1>19. CASE ApplyStaged  BY <1>19 DEF ApplyStaged, Apply
<1>20. CASE ScheduleApply  BY <1>20 DEF ScheduleApply, Schedule, Fails
<1>21. CASE Return  BY <1>21 DEF Return
<1>22. CASE TaskStep  BY <1>22 DEF TaskStep, ApplyStarts, CopyChunk
<1>23. CASE PowerCycle  BY <1>23 DEF PowerCycle, Reboot, PowerFails
<1>24. CASE UNCHANGED clientVars  BY <1>24 DEF clientVars
<1>. QED
  BY <1>1, <1>2, <1>3, <1>4, <1>5, <1>6, <1>7, <1>8, <1>9, <1>10, <1>11, <1>12, <1>13,
     <1>14, <1>15, <1>16, <1>17, <1>18, <1>19, <1>20, <1>21, <1>22, <1>23, <1>24
  DEF ClientNext

\* The copy and the next update: every step.
LEMMA CopyStep ==
  ASSUME Writer = "client", HandshakeOutlastsDelay, TypeOK, ClientTypeOK, PhaseInv,
         CopyInv, QueueInv, StagingInv, [ClientNext]_clientVars
  PROVE  CopyInv' /\ QueueInv'
<1>. USE Constants
    DEF vars, flash, writer, apply, status, download, client, Step, Download, GiveUp, Staged,
        Scheduled, Restart, NoSession, PhaseInv, CopyInv, QueueInv, Matches, TypeOK, Received,
        Complete, Applicable
<1>1. CASE AskCheck  BY <1>1 DEF AskCheck
<1>2. CASE AskApply  BY <1>2 DEF AskApply
<1>3. CASE NoteCheck  BY <1>3 DEF NoteCheck
<1>4. CASE NoteApply  BY <1>4 DEF NoteApply
<1>5. CASE StartCheck  BY <1>5 DEF StartCheck, Take
<1>6. CASE CheckFails  BY <1>6 DEF CheckFails
<1>7. CASE \E i \in Images, found \in SUBSET Fields : CheckReads(i, found)
  BY <1>7 DEF CheckReads, Parsed, Fields
<1>8. CASE NothingToApply  BY <1>8 DEF NothingToApply, Take, Fails
<1>9. CASE StartApply  BY <1>9 DEF StartApply, Take, Begin
<1>10. CASE \E i \in Images : Answer(i)  BY <1>10 DEF Answer
<1>11. CASE \E n \in 1..ChunkUnits : Read(n)  BY <1>11 DEF Read
<1>12. CASE Flush  BY <1>12 DEF Flush, Chunk
<1>13. CASE Flushed  BY <1>13 DEF Flushed, Verify
<1>14. CASE GiveUpDownload  BY <1>14 DEF GiveUpDownload, Abort
<1>15. CASE EndDownload  BY <1>15 DEF EndDownload, Finalize
<1>16. CASE StagingWorks
  BY <1>16 DEF StagingWorks, Invalidate, Open, Erase, Program, FlashFails, VerifyFails,
        EraseMetadata, WriteMetadata
<1>17. CASE StagingFails
  BY <1>17 DEF StagingFails, Fails, InvalidateFails, MetadataFails, AbortErase, ApplyRefused,
        FinalizeFails
<1>18. CASE StagedImage  BY <1>18 DEF StagedImage, Close
<1>19. CASE ApplyStaged  BY <1>19 DEF ApplyStaged, Apply
<1>20. CASE ScheduleApply  BY <1>20 DEF ScheduleApply, Schedule, Fails
<1>21. CASE Return  BY <1>21 DEF Return
<1>22. CASE TaskStep  BY <1>22 DEF TaskStep, ApplyStarts, CopyChunk
<1>23. CASE PowerCycle  BY <1>23 DEF PowerCycle, Reboot, PowerFails
<1>24. CASE UNCHANGED clientVars  BY <1>24 DEF clientVars
<1>. QED
  BY <1>1, <1>2, <1>3, <1>4, <1>5, <1>6, <1>7, <1>8, <1>9, <1>10, <1>11, <1>12, <1>13,
     <1>14, <1>15, <1>16, <1>17, <1>18, <1>19, <1>20, <1>21, <1>22, <1>23, <1>24
  DEF ClientNext

\* The other commands stay in the queue when one is taken.
LEMMA TakeKeeps ==
  ASSUME queue \in Seq({"check", "apply"}), NEW command, Take(command),
         NEW other \in {"check", "apply"}, other # command, Queued(other)
  PROVE  Queued(other)'
<1>1. PICK q : q = queue  OBVIOUS
<1>2. q \in Seq({"check", "apply"}) /\ q # <<>> /\ Head(q) = command /\ queue' = Tail(q)
  BY <1>1 DEF Take
<1>3. PICK n \in 1..Len(q) : q[n] = other  BY <1>1 DEF Queued
<1>4. PICK r : r = Tail(q)  OBVIOUS
<1>5. Len(q) \in Nat \ {0} /\ Len(r) = Len(q) - 1 /\ Head(q) = q[1]
      /\ \A i \in 1..Len(r) : r[i] = q[i + 1]
  BY <1>2, <1>4, HeadTailProperties, EmptySeq, LenProperties
<1>6. n # 1  BY <1>2, <1>3, <1>5
<1>7. n - 1 \in 1..Len(r) /\ r[n - 1] = other  BY <1>3, <1>5, <1>6
<1>. QED  BY <1>2, <1>4, <1>7 DEF Queued

\* The status: every step.
LEMMA StatusStep ==
  ASSUME Writer = "client", ClientTypeOK, PhaseInv, StatusIsTrue, [ClientNext]_clientVars
  PROVE  StatusIsTrue'
<1>. USE WriterAssumption
    DEF vars, flash, writer, apply, status, download, client, Step, Download, GiveUp, Staged,
        Scheduled, Restart, PhaseInv, StatusIsTrue, Applying, Queued
<1>1. CASE AskCheck  BY <1>1 DEF AskCheck
<1>2. CASE AskApply  BY <1>2 DEF AskApply
<1>3. CASE NoteCheck  BY <1>3 DEF NoteCheck
<1>4. CASE NoteApply  BY <1>4 DEF NoteApply
<1>5. CASE StartCheck
  <2>1. (\E n \in 1..Len(queue) : queue[n] = "apply")
          => \E n \in 1..Len(queue') : queue'[n] = "apply"
    BY <1>5, TakeKeeps DEF StartCheck, ClientTypeOK
  <2>. QED  BY <1>5, <2>1 DEF StartCheck, Take
<1>6. CASE CheckFails  BY <1>6 DEF CheckFails
<1>7. CASE \E i \in Images, found \in SUBSET Fields : CheckReads(i, found)
  BY <1>7 DEF CheckReads, Parsed, Fields
<1>8. CASE NothingToApply  BY <1>8 DEF NothingToApply, Take, Fails
<1>9. CASE StartApply  BY <1>9 DEF StartApply, Take, Begin
<1>10. CASE \E i \in Images : Answer(i)  BY <1>10 DEF Answer
<1>11. CASE \E n \in 1..ChunkUnits : Read(n)  BY <1>11 DEF Read
<1>12. CASE Flush  BY <1>12 DEF Flush, Chunk
<1>13. CASE Flushed  BY <1>13 DEF Flushed, Verify
<1>14. CASE GiveUpDownload  BY <1>14 DEF GiveUpDownload, Abort
<1>15. CASE EndDownload  BY <1>15 DEF EndDownload, Finalize
<1>16. CASE StagingWorks
  BY <1>16 DEF StagingWorks, Invalidate, Open, Erase, Program, FlashFails, VerifyFails,
        EraseMetadata, WriteMetadata
<1>17. CASE StagingFails
  BY <1>17 DEF StagingFails, Fails, InvalidateFails, MetadataFails, AbortErase, ApplyRefused,
        FinalizeFails
<1>18. CASE StagedImage  BY <1>18 DEF StagedImage, Close
<1>19. CASE ApplyStaged  BY <1>19 DEF ApplyStaged, Apply
<1>20. CASE ScheduleApply  BY <1>20 DEF ScheduleApply, Schedule, Fails
<1>21. CASE Return  BY <1>21 DEF Return
<1>22. CASE TaskStep  BY <1>22 DEF TaskStep, ApplyStarts, CopyChunk
<1>23. CASE PowerCycle  BY <1>23 DEF PowerCycle, Reboot, PowerFails
<1>24. CASE UNCHANGED clientVars  BY <1>24 DEF clientVars
<1>. QED
  BY <1>1, <1>2, <1>3, <1>4, <1>5, <1>6, <1>7, <1>8, <1>9, <1>10, <1>11, <1>12, <1>13,
     <1>14, <1>15, <1>16, <1>17, <1>18, <1>19, <1>20, <1>21, <1>22, <1>23, <1>24
  DEF ClientNext

\* An image of n chunks has more half pages than n - 1 chunks, and no more than n.
LEMMA Lengths ==
  \A i \in Images : /\ Size[i] \in Nat /\ Size[i] > 0 /\ Units[i] \in Nat /\ Units[i] > 0
                  /\ ChunkUnits * (Size[i] - 1) < Units[i] /\ Units[i] <= ChunkUnits * Size[i]
                  /\ i # None
<1>. SUFFICES ASSUME NEW i \in Images
              PROVE  /\ Size[i] \in Nat /\ Size[i] > 0 /\ Units[i] \in Nat /\ Units[i] > 0
                     /\ ChunkUnits * (Size[i] - 1) < Units[i] /\ Units[i] <= ChunkUnits * Size[i]
                     /\ i # None
  OBVIOUS
<1>1. PICK u : u = Units[i]  OBVIOUS
<1>2. PICK k : k = Size[i]  OBVIOUS
<1>3. u \in Nat /\ u > 0 /\ k = (u + 3) \div 4
  <2>1. u \in Nat /\ u > 0 /\ k = (u + 4 - 1) \div 4
    BY <1>1, <1>2, UnitsAssumption DEF ChunkUnits
  <2>2. u + 4 - 1 = u + 3  BY <2>1
  <2>. QED  BY <2>1, <2>2
<1>4. k \in Nat /\ k > 0  BY <1>2, SizeAssumption
<1>5. 4 * k <= u + 3 /\ u + 3 < 4 * k + 4  BY <1>3
<1>6. 4 * (k - 1) < u /\ u <= 4 * k  BY <1>3, <1>4, <1>5
<1>. QED  BY <1>1, <1>2, <1>3, <1>4, <1>6, NoneAssumption DEF ChunkUnits

\* The queue holds commands, two of them at most.
QueueOK == queue \in Seq({"check", "apply"}) /\ Len(queue) <= QueueLength

LEMMA QueueAppend ==
  ASSUME QueueOK, NEW c \in {"check", "apply"}, Len(queue) < QueueLength,
         queue' = Append(queue, c)
  PROVE  QueueOK'
<1>1. Len(queue) \in Nat  BY LenProperties DEF QueueOK
<1>. QED  BY <1>1, AppendProperties DEF QueueOK, QueueLength

LEMMA QueueTake ==
  ASSUME QueueOK, NEW c, Take(c) PROVE QueueOK'
<1>1. PICK r : r = Tail(queue)  OBVIOUS
<1>2. r \in Seq({"check", "apply"}) /\ Len(r) = Len(queue) - 1 /\ Len(queue) \in Nat
  BY <1>1, HeadTailProperties, LenProperties DEF Take, QueueOK
<1>. QED  BY <1>1, <1>2 DEF Take, QueueOK, QueueLength

\* Types of the worker and its handlers: every step.
LEMMA ClientTypeStep ==
  ASSUME Writer = "client", TypeOK, ClientTypeOK, [ClientNext]_clientVars
  PROVE  ClientTypeOK'
<1>. USE Lengths
    DEF vars, flash, writer, apply, status, download, client, Step, Download, GiveUp, Staged,
        Scheduled, Restart, TypeOK, ClientTypeOK, Length, QueueLength, ChunkUnits
<1>1. CASE AskCheck
  <2>1. QueueOK'  BY <1>1, QueueAppend DEF AskCheck, QueueOK
  <2>. QED  BY <1>1, <2>1 DEF AskCheck, QueueOK
<1>2. CASE AskApply
  <2>1. QueueOK'  BY <1>2, QueueAppend DEF AskApply, QueueOK
  <2>. QED  BY <1>2, <2>1 DEF AskApply, QueueOK
<1>3. CASE NoteCheck  BY <1>3 DEF NoteCheck
<1>4. CASE NoteApply  BY <1>4 DEF NoteApply
<1>5. CASE StartCheck
  <2>1. QueueOK'  BY <1>5, QueueTake DEF StartCheck, QueueOK
  <2>. QED  BY <1>5, <2>1 DEF StartCheck, Take, QueueOK
<1>6. CASE CheckFails  BY <1>6 DEF CheckFails
<1>7. CASE \E i \in Images, found \in SUBSET Fields : CheckReads(i, found)
  BY <1>7 DEF CheckReads, Parsed, Fields
<1>8. CASE NothingToApply
  <2>1. QueueOK'  BY <1>8, QueueTake DEF NothingToApply, QueueOK
  <2>. QED  BY <1>8, <2>1 DEF NothingToApply, Take, Fails, QueueOK
<1>9. CASE StartApply
  <2>1. QueueOK'  BY <1>9, QueueTake DEF StartApply, QueueOK
  <2>. QED  BY <1>9, <2>1 DEF StartApply, Take, Begin, QueueOK
<1>10. CASE \E i \in Images : Answer(i)  BY <1>10 DEF Answer
<1>11. CASE \E n \in 1..ChunkUnits : Read(n)
  <2>1. PICK n \in 1..ChunkUnits : Read(n)  BY <1>11
  <2>2. n \in Nat /\ fill' = fill + n /\ n <= ChunkUnits - fill  BY <2>1 DEF Read
  <2>3. fill' \in 0..ChunkUnits  BY <2>2
  <2>4. body' = [body EXCEPT !.got = body.got + n] /\ n <= Units[body.of] - body.got
    BY <2>1 DEF Read
  <2>5. body.of \in Images /\ body.got \in Nat /\ Units[body.of] \in Nat  OBVIOUS
  <2>6. body'.of = body.of /\ body'.got = body.got + n  BY <2>4
  <2>7. body.got + n \in Nat /\ body.got + n <= Units[body.of]  BY <2>2, <2>4, <2>5
  <2>8. body' \in [of : Images, got : Nat] /\ body'.got <= Units[body'.of]
    <3>1. body' \in [of : Images, got : Nat]  BY <2>4, <2>7
    <3>. QED  BY <2>6, <2>7, <3>1
  <2>9. job' \in {"body", "flush"} /\ UNCHANGED <<queue, rest, checkState, applyState,
        manifest, overtaken>>
    BY <2>1 DEF Read
  <2>. QED  BY <2>3, <2>8, <2>9
<1>12. CASE Flush  BY <1>12 DEF Flush, Chunk
<1>13. CASE Flushed  BY <1>13 DEF Flushed, Verify
<1>14. CASE GiveUpDownload  BY <1>14 DEF GiveUpDownload, Abort
<1>15. CASE EndDownload  BY <1>15 DEF EndDownload, Finalize
<1>16. CASE StagingWorks
  BY <1>16 DEF StagingWorks, Invalidate, Open, Erase, Program, FlashFails, VerifyFails,
        EraseMetadata, WriteMetadata
<1>17. CASE StagingFails
  BY <1>17 DEF StagingFails, Fails, InvalidateFails, MetadataFails, AbortErase, ApplyRefused,
        FinalizeFails
<1>18. CASE StagedImage  BY <1>18 DEF StagedImage, Close
<1>19. CASE ApplyStaged  BY <1>19 DEF ApplyStaged, Apply
<1>20. CASE ScheduleApply  BY <1>20 DEF ScheduleApply, Schedule, Fails
<1>21. CASE Return  BY <1>21 DEF Return
<1>22. CASE TaskStep  BY <1>22 DEF TaskStep, ApplyStarts, CopyChunk
<1>23. CASE PowerCycle  BY <1>23 DEF PowerCycle, Reboot, PowerFails
<1>24. CASE UNCHANGED clientVars  BY <1>24 DEF clientVars
<1>. QED
  BY <1>1, <1>2, <1>3, <1>4, <1>5, <1>6, <1>7, <1>8, <1>9, <1>10, <1>11, <1>12, <1>13,
     <1>14, <1>15, <1>16, <1>17, <1>18, <1>19, <1>20, <1>21, <1>22, <1>23, <1>24
  DEF ClientNext

\* The buffer: every step.
LEMMA BufferStep ==
  ASSUME Writer = "client", TypeOK, WritingInv, ClientTypeOK, PhaseInv, ReleaseInv,
         BufferInv, [ClientNext]_clientVars
  PROVE  BufferInv'
<1>. USE Lengths
    DEF vars, flash, writer, apply, status, download, client, Step, Download, GiveUp, Staged,
        Scheduled, Restart, NoSession, TypeOK, ClientTypeOK, PhaseInv, ReleaseInv, BufferInv,
        Buffering, AllWritten, Flushing, FlushDue, Written, Total, Length, ChunkUnits
<1>1. CASE AskCheck  BY <1>1 DEF AskCheck
<1>2. CASE AskApply  BY <1>2 DEF AskApply
<1>3. CASE NoteCheck  BY <1>3 DEF NoteCheck
<1>4. CASE NoteApply  BY <1>4 DEF NoteApply
<1>5. CASE StartCheck  BY <1>5 DEF StartCheck, Take
<1>6. CASE CheckFails  BY <1>6 DEF CheckFails
<1>7. CASE \E i \in Images, found \in SUBSET Fields : CheckReads(i, found)
  BY <1>7 DEF CheckReads, Parsed, Fields
<1>8. CASE NothingToApply  BY <1>8 DEF NothingToApply, Take, Fails
<1>9. CASE StartApply  BY <1>9 DEF StartApply, Take, Begin
<1>10. CASE \E i \in Images : Answer(i)  BY <1>10 DEF Answer
<1>11. CASE \E n \in 1..ChunkUnits : Read(n)
  <2>1. PICK n \in 1..ChunkUnits : Read(n)  BY <1>11
  <2>. SUFFICES ASSUME Units[body.of] = Units[manifest.size] PROVE BufferInv'
    BY <2>1 DEF Read
  <2>2. n \in Nat /\ n > 0  OBVIOUS
  <2>3. /\ fill' = fill + n /\ n <= 4 - fill
        /\ body' = [body EXCEPT !.got = body.got + n] /\ n <= Units[body.of] - body.got
    BY <2>1 DEF Read
  <2>4. /\ job' = IF fill' = 4 \/ Written + fill' = Total THEN "flush" ELSE "body"
        /\ UNCHANGED <<session, manifest, at>> /\ at = "download" /\ job = "body"
    BY <2>1 DEF Read
  <2>5. /\ n \in Nat /\ n > 0 /\ fill' = fill + n /\ n <= 4 - fill
        /\ n <= Units[body.of] - body.got
        /\ job' = IF fill' = 4 \/ Written + fill' = Total THEN "flush" ELSE "body"
        /\ UNCHANGED <<session, manifest, at>> /\ at = "download" /\ job = "body"
    BY <2>2, <2>3, <2>4
  <2>6. Buffering  BY <2>5
  <2>7. body'.got = body.got + n /\ body'.of = body.of  BY <2>3
  <2>8. fill' \in 1..4 /\ body'.got = Written + fill' /\ body'.got <= Total  BY <2>5, <2>6, <2>7
  <2>9. CASE fill' = 4 \/ Written + fill' = Total
    <3>1. Flushing'  BY <2>5, <2>7, <2>8, <2>9
    <3>. QED  BY <2>5, <2>9, <3>1
  <2>10. CASE ~(fill' = 4 \/ Written + fill' = Total)
    <3>1. body'.got # Total  BY <2>8, <2>10
    <3>2. Buffering'  BY <2>5, <2>7, <2>8, <2>10, <3>1
    <3>. QED  BY <2>5, <2>10, <3>2
  <2>. QED  BY <2>9, <2>10
<1>12. CASE Flush  BY <1>12 DEF Flush, Chunk
<1>13. CASE Flushed
  <2>. SUFFICES ASSUME Units[body.of] = Units[manifest.size] PROVE BufferInv'
    BY <1>13 DEF Flushed
  <2>1. /\ session.active /\ session.image = manifest.size
        /\ session' = [session EXCEPT !.received = session.received + 1]
        /\ at = "verify" /\ at' = "download" /\ fill' = 0 /\ job' = "body"
        /\ UNCHANGED <<manifest, body>>
    BY <1>13 DEF Flushed, Verify
  <2>2. Flushing  BY <2>1
  <2>3. session'.received = session.received + 1 /\ session.received \in Nat  BY <2>1
  <2>4. /\ body.got = session.received * 4 + fill /\ fill \in 1..4 /\ body.got <= Total
        /\ fill = 4 \/ body.got = Total
    BY <2>2, <2>3
  <2>5. CASE body.got < Total
    <3>1. body.got = (session.received + 1) * 4  BY <2>3, <2>4, <2>5
    <3>. QED  BY <2>1, <2>3, <2>5, <3>1
  <2>6. CASE body.got = Total
    <3>1. Size[manifest.size] = session.received + 1  BY <2>3, <2>4, <2>6
    <3>. QED  BY <2>1, <2>3, <2>6, <3>1
  <2>. QED  BY <2>4, <2>5, <2>6
<1>14. CASE GiveUpDownload  BY <1>14 DEF GiveUpDownload, Abort
<1>15. CASE EndDownload  BY <1>15 DEF EndDownload, Finalize
<1>16. CASE StagingWorks
  BY <1>16 DEF StagingWorks, Invalidate, Open, Erase, Program, FlashFails, VerifyFails,
        EraseMetadata, WriteMetadata
<1>17. CASE StagingFails
  BY <1>17 DEF StagingFails, Fails, InvalidateFails, MetadataFails, AbortErase, ApplyRefused,
        FinalizeFails
<1>18. CASE StagedImage  BY <1>18 DEF StagedImage, Close
<1>19. CASE ApplyStaged  BY <1>19 DEF ApplyStaged, Apply
<1>20. CASE ScheduleApply  BY <1>20 DEF ScheduleApply, Schedule, Fails
<1>21. CASE Return  BY <1>21 DEF Return
<1>22. CASE TaskStep  BY <1>22 DEF TaskStep, ApplyStarts, CopyChunk
<1>23. CASE PowerCycle  BY <1>23 DEF PowerCycle, Reboot, PowerFails
<1>24. CASE UNCHANGED clientVars  BY <1>24 DEF clientVars
<1>. QED
  BY <1>1, <1>2, <1>3, <1>4, <1>5, <1>6, <1>7, <1>8, <1>9, <1>10, <1>11, <1>12, <1>13,
     <1>14, <1>15, <1>16, <1>17, <1>18, <1>19, <1>20, <1>21, <1>22, <1>23, <1>24
  DEF ClientNext

\* The slot: every step.
LEMMA ClientPrimaryStep ==
  ASSUME TypeOK, CopyInv, PrimaryInv, ClientTypeOK, [ClientNext]_clientVars
  PROVE  PrimaryInv'
<1>1. CASE [Next]_vars  BY <1>1, PrimaryStep
<1>2. CASE at = "done" /\ at' = "idle" /\ UNCHANGED <<session, flash, image, chunk, apply>>
  BY <1>2 DEF flash, apply, PrimaryInv, RunsWholeImage, Matches
<1>. QED  BY <1>1, <1>2, ClientIsWriter

\* What holds of the worker and the staging area, however fast the network is.
ClientInv ==
  /\ TypeOK /\ WritingInv /\ StagingInv
  /\ ClientTypeOK /\ PhaseInv /\ ReleaseInv /\ BufferInv /\ StatusIsTrue

\* What holds of the slot and the copy if no answer comes while an apply task waits.
SlotInv == CopyInv /\ PrimaryInv /\ QueueInv

LEMMA ClientInitInv == ClientInit => ClientInv /\ SlotInv
<1>. SUFFICES ASSUME ClientInit PROVE ClientInv /\ SlotInv  OBVIOUS
<1>1. Init  BY DEF ClientInit
<1>2. TypeOK /\ WritingInv /\ StagingInv /\ PrimaryInv  BY <1>1, TypeInit, StagingInit,
      PrimaryInit
<1>3. CopyInv /\ QueueInv  BY <1>1 DEF Init, CopyInv, QueueInv
<1>4. ClientTypeOK
  <2>1. QueueOK
    <3>1. <<>> \in Seq({"check", "apply"}) /\ Len(<<>>) = 0  BY EmptySeq
    <3>. QED  BY <3>1 DEF ClientInit, QueueOK, QueueLength
  <2>2. body.got <= Length  BY <1>2, Lengths DEF ClientInit, Length, TypeOK
  <2>. QED  BY <1>2, <2>1, <2>2 DEF ClientInit, ClientTypeOK, QueueOK, TypeOK, ChunkUnits
<1>5. PhaseInv /\ ReleaseInv /\ StatusIsTrue
  BY <1>1 DEF ClientInit, Init, PhaseInv, ReleaseInv, ManifestIsWhole, StatusIsTrue
<1>6. BufferInv  BY <1>1 DEF ClientInit, Init, BufferInv
<1>. QED  BY <1>2, <1>3, <1>4, <1>5, <1>6 DEF ClientInv, SlotInv

LEMMA ClientStep ==
  ASSUME Writer = "client", ClientInv, [ClientNext]_clientVars PROVE ClientInv'
<1>. USE DEF ClientInv
<1>1. TypeOK' /\ WritingInv' /\ StagingInv'  BY ClientStagingStep
<1>2. ClientTypeOK'  BY ClientTypeStep
<1>3. PhaseInv' /\ ReleaseInv' /\ StatusIsTrue'  BY PhaseStep, ReleaseStep, StatusStep
<1>4. BufferInv'  BY BufferStep
<1>. QED  BY <1>1, <1>2, <1>3, <1>4

LEMMA ClientAlways ==
  ASSUME Writer = "client" PROVE ClientSpec => []ClientInv
<1>1. ClientInv /\ [ClientNext]_clientVars => ClientInv'  BY ClientStep
<1>. QED  BY <1>1, ClientInitInv, PTL DEF ClientSpec

LEMMA SlotAlways ==
  ASSUME Writer = "client", HandshakeOutlastsDelay PROVE ClientSpec => [](ClientInv /\ SlotInv)
<1>1. ClientInv /\ SlotInv /\ [ClientNext]_clientVars => ClientInv' /\ SlotInv'
  <2>. SUFFICES ASSUME ClientInv, SlotInv, [ClientNext]_clientVars
                PROVE  ClientInv' /\ SlotInv'
    OBVIOUS
  <2>1. ClientInv'  BY ClientStep
  <2>2. CopyInv' /\ QueueInv'  BY CopyStep DEF ClientInv, SlotInv
  <2>3. PrimaryInv'  BY ClientPrimaryStep DEF ClientInv, SlotInv
  <2>. QED  BY <2>1, <2>2, <2>3 DEF SlotInv
<1>. QED  BY <1>1, ClientInitInv, PTL DEF ClientSpec

\* For any images: the worker, its queue and its status have the values the code can give
\* them; the buffer holds no more than a chunk and no more than was announced is received.
THEOREM ClientTypesCorrect == ASSUME Writer = "client" PROVE ClientSpec => []ClientTypeOK
<1>1. ClientInv => ClientTypeOK  BY DEF ClientInv
<1>. QED  BY <1>1, ClientAlways, PTL

\* For any images, and whatever fails while the device fetches them: the metadata vouches
\* for an image only while all of it is staged.
THEOREM ClientStagesVerified == ASSUME Writer = "client" PROVE ClientSpec => []StagedIsVerified
<1>1. ClientInv => StagedIsVerified  BY DEF ClientInv, StagingInv
<1>. QED  BY <1>1, ClientAlways, PTL

\* For any images, if the handshakes of an update outlast the delay of an earlier apply:
\* outside a copy the device runs one whole application image, also when the worker begins
\* that update before the scheduled copy starts (it has received none of it when the copy
\* starts, and the copy holds the other core).
THEOREM ClientRunsWhole ==
  ASSUME Writer = "client", HandshakeOutlastsDelay PROVE ClientSpec => []RunsWholeImage
<1>1. SlotInv => RunsWholeImage  BY DEF SlotInv, PrimaryInv
<1>. QED  BY <1>1, SlotAlways, PTL

\* For images of any length, and however the network cuts a download up: a file of the
\* announced length reaches the staging area whole, in chunks it accepts
\* (ota_client_apply_body_cb, ota_stage_write).
THEOREM DownloadsFit == ASSUME Writer = "client" PROVE ClientSpec => []DownloadFitsStaging
<1>1. ClientInv => DownloadFitsStaging
  <2>. SUFFICES ASSUME ClientInv PROVE DownloadFitsStaging  OBVIOUS
  <2>. USE DEF ClientInv
  <2>1. ASSUME job = "flush", Length = Total PROVE Acceptable
    <3>1. Flushing  BY <2>1 DEF BufferInv
    <3>2. Written + fill <= Total  BY <3>1 DEF Flushing
    <3>3. fill = 4 \/ Written + fill = Total  BY <3>1 DEF Flushing, FlushDue, ChunkUnits
    <3>4. 4 % 2 = 0  OBVIOUS
    <3>. QED  BY <3>2, <3>3, <3>4 DEF Acceptable
  <2>2. ASSUME Received, at = "download" PROVE Complete
    <3>1. job = "body" /\ Length = Total /\ body.got = Total  BY <2>2 DEF Received
    <3>2. Buffering \/ AllWritten  BY <3>1 DEF BufferInv
    <3>3. Total \in Nat  BY Lengths DEF Total, ClientTypeOK
    <3>4. AllWritten  BY <3>1, <3>2, <3>3 DEF Buffering
    <3>. QED  BY <2>2, <3>4 DEF AllWritten, Complete, ReleaseInv
  <2>. QED  BY <2>1, <2>2 DEF DownloadFitsStaging
<1>. QED  BY <1>1, ClientAlways, PTL

\* For any images, and whatever manifests were read: the size and the CRC an update is
\* checked against are those of one release.
THEOREM ManifestsWhole == ASSUME Writer = "client" PROVE ClientSpec => []ManifestIsWhole
<1>1. ClientInv => ManifestIsWhole  BY DEF ClientInv, ReleaseInv
<1>. QED  BY <1>1, ClientAlways, PTL

\* For any images, and whichever step fails: the status says that a check or an update is
\* under way only of a command that is queued or being served, but for a command that had
\* ended when its handler noted that it had begun.
THEOREM StatusTrue == ASSUME Writer = "client" PROVE ClientSpec => []StatusIsTrue
<1>1. ClientInv => StatusIsTrue  BY DEF ClientInv
<1>. QED  BY <1>1, ClientAlways, PTL

-----------------------------------------------------------------------------
(* What an update promises of the firmware the device boots. *)

\* What is about to be installed is what the metadata vouches for, and the metadata is
\* not about to be written while the apply task waits.
PromiseInv ==
  /\ at = "schedule" => metadata = params
  /\ applying = "delay" => at \notin {"erase_metadata", "write_metadata"}

\* The metadata and what is about to be installed: every step.
LEMMA PromiseInvStep ==
  ASSUME Writer = "client", TypeOK, ClientTypeOK, PhaseInv, QueueInv, PromiseInv,
         [ClientNext]_clientVars
  PROVE  PromiseInv'
<1>. USE Constants
    DEF vars, flash, writer, apply, status, download, client, Step, Download, GiveUp, Staged,
        Scheduled, Restart, NoSession, PhaseInv, QueueInv, PromiseInv, TypeOK, Received
<1>1. CASE AskCheck  BY <1>1 DEF AskCheck
<1>2. CASE AskApply  BY <1>2 DEF AskApply
<1>3. CASE NoteCheck  BY <1>3 DEF NoteCheck
<1>4. CASE NoteApply  BY <1>4 DEF NoteApply
<1>5. CASE StartCheck  BY <1>5 DEF StartCheck, Take
<1>6. CASE CheckFails  BY <1>6 DEF CheckFails
<1>7. CASE \E i \in Images, found \in SUBSET Fields : CheckReads(i, found)
  BY <1>7 DEF CheckReads, Parsed, Fields
<1>8. CASE NothingToApply  BY <1>8 DEF NothingToApply, Take, Fails
<1>9. CASE StartApply  BY <1>9 DEF StartApply, Take, Begin
<1>10. CASE \E i \in Images : Answer(i)  BY <1>10 DEF Answer
<1>11. CASE \E n \in 1..ChunkUnits : Read(n)  BY <1>11 DEF Read
<1>12. CASE Flush  BY <1>12 DEF Flush, Chunk
<1>13. CASE Flushed  BY <1>13 DEF Flushed, Verify
<1>14. CASE GiveUpDownload  BY <1>14 DEF GiveUpDownload, Abort
<1>15. CASE EndDownload  BY <1>15 DEF EndDownload, Finalize
<1>16. CASE StagingWorks
  BY <1>16 DEF StagingWorks, Invalidate, Open, Erase, Program, FlashFails, VerifyFails,
        EraseMetadata, WriteMetadata
<1>17. CASE StagingFails
  BY <1>17 DEF StagingFails, Fails, InvalidateFails, MetadataFails, AbortErase, ApplyRefused,
        FinalizeFails
<1>18. CASE StagedImage  BY <1>18 DEF StagedImage, Close
<1>19. CASE ApplyStaged  BY <1>19 DEF ApplyStaged, Apply
<1>20. CASE ScheduleApply  BY <1>20 DEF ScheduleApply, Schedule, Fails
<1>21. CASE Return  BY <1>21 DEF Return
<1>22. CASE TaskStep  BY <1>22 DEF TaskStep, ApplyStarts, CopyChunk
<1>23. CASE PowerCycle  BY <1>23 DEF PowerCycle, Reboot, PowerFails
<1>24. CASE UNCHANGED clientVars  BY <1>24 DEF clientVars
<1>. QED
  BY <1>1, <1>2, <1>3, <1>4, <1>5, <1>6, <1>7, <1>8, <1>9, <1>10, <1>11, <1>12, <1>13,
     <1>14, <1>15, <1>16, <1>17, <1>18, <1>19, <1>20, <1>21, <1>22, <1>23, <1>24
  DEF ClientNext

\* One image is in the slot at most: the first chunk tells.
LEMMA OneImage ==
  ASSUME NEW area, NEW i \in Images, NEW j \in Images, Matches(area, i), Matches(area, j)
  PROVE  i = j
<1>1. 0 \in 0..(Size[i] - 1) /\ 0 \in 0..(Size[j] - 1)  BY Constants
<1>. QED  BY <1>1 DEF Matches

\* Outside a copy that has begun to overwrite it the slot has something to boot.
LEMMA BootsOfSlot ==
  ASSUME NEW i \in Images \ Containers, Matches(primary, i),
         applying # "dead", applying = "copy" => copied = 0
  PROVE  Boots = i
<1>1. \A j \in Images \ Containers : Matches(primary, j) => j = i  BY OneImage
<1>2. ~(applying = "dead" \/ (applying = "copy" /\ copied > 0))  OBVIOUS
<1>. QED  BY <1>1, <1>2 DEF Boots

LEMMA BootsSomething ==
  ASSUME TypeOK, PrimaryInv, applying # "dead", applying = "copy" => copied = 0
  PROVE  Boots \in Images \ Containers /\ Boots # None
<1>1. PICK i \in Images \ Containers : Matches(primary, i)
  BY DEF TypeOK, PrimaryInv, RunsWholeImage
<1>2. Boots = i  BY <1>1, BootsOfSlot
<1>. QED  BY <1>2, Constants

\* What the device boots depends on the slot and on where the copy is.
LEMMA BootsSame ==
  ASSUME UNCHANGED <<primary, applying, copied>> PROVE Boots' = Boots
BY DEF Boots, Matches

\* A step of the staging area is a step of the promise, or none.
LEMMA StagingKeepsPromise ==
  ASSUME TypeOK, StagingInv, CopyInv, PrimaryInv, QueueInv, PromiseInv,
         [Next]_vars
  PROVE  [Promise!Next]_(Promise!vars)
<1>. USE Constants DEF flash, writer, apply, vars, Step
<1>. DEFINE Same == UNCHANGED <<primary, applying, copied>> /\ Target' = Target
<1>1. ASSUME Same, metadata' = metadata PROVE [Promise!Next]_(Promise!vars)
  BY <1>1, BootsSame DEF Promise!vars
<1>2. ASSUME Same, metadata' = None, applying \notin {"copy", "dead"}
      PROVE  [Promise!Next]_(Promise!vars)
  <2>1. Boots # None  BY <1>2, BootsSomething
  <2>2. Promise!Withdraw  BY <1>2, <2>1, BootsSame DEF Promise!Withdraw
  <2>. QED  BY <2>2 DEF Promise!Next
<1>3. CASE \E i \in Images : Begin(i)  BY <1>3, <1>1 DEF Begin, Target
<1>4. CASE \E i \in Images, o \in Offsets : Chunk(i, o)  BY <1>4, <1>1 DEF Chunk, Target
<1>5. CASE Finalize  BY <1>5, <1>1 DEF Finalize, Target
<1>6. CASE Abort  BY <1>6, <1>1 DEF Abort, Target
<1>7. CASE Apply  BY <1>7, <1>1 DEF Apply, Target
<1>8. CASE InvalidateFails  BY <1>8, <1>1 DEF InvalidateFails, Target
<1>9. CASE Invalidate  BY <1>9, <1>2 DEF Invalidate, Target
<1>10. CASE Open  BY <1>10, <1>1 DEF Open, Target
<1>11. CASE Erase  BY <1>11, <1>1 DEF Erase, Target
<1>12. CASE Program  BY <1>12, <1>1 DEF Program, Target
<1>13. CASE FlashFails  BY <1>13, <1>1 DEF FlashFails, Target
<1>14. CASE Verify  BY <1>14, <1>1 DEF Verify, Target
<1>15. CASE VerifyFails  BY <1>15, <1>1 DEF VerifyFails, Target
<1>16. CASE FinalizeFails  BY <1>16, <1>1 DEF FinalizeFails, Target
<1>17. CASE EraseMetadata  BY <1>17, <1>2 DEF EraseMetadata, Target
<1>18. CASE WriteMetadata
  <2>1. applying = "no" /\ metadata = None
    BY <1>18 DEF WriteMetadata, TypeOK, StagingInv, PromiseInv
  <2>2. Boots # None /\ Boots' = Boots
    BY <1>18, <2>1, BootsSomething, BootsSame DEF WriteMetadata
  <2>3. Target = None /\ Target' = None  BY <1>18, <2>1 DEF WriteMetadata, Target
  <2>4. image \in Images /\ metadata' = image  BY <1>18 DEF WriteMetadata, TypeOK
  <2>5. Promise!Approve(image)  BY <2>1, <2>2, <2>3, <2>4 DEF Promise!Approve
  <2>. QED  BY <2>4, <2>5 DEF Promise!Next
<1>19. CASE MetadataFails  BY <1>19, <1>1 DEF MetadataFails, Target
<1>20. CASE Close  BY <1>20, <1>1 DEF Close, Target
<1>21. CASE AbortErase  BY <1>21, <1>1, <1>2 DEF AbortErase, Target
<1>22. CASE ApplyRefused  BY <1>22, <1>1 DEF ApplyRefused, Target
<1>23. CASE Schedule
  <2>1. CASE applying' = applying  BY <1>23, <2>1, <1>1 DEF Schedule, Target
  <2>2. CASE applying' = "delay"
    <3>1. applying = "no" /\ params \in Images \ Containers /\ metadata = params
      BY <1>23 DEF Schedule, TypeOK, QueueInv, PromiseInv
    <3>2. Boots # None  BY <3>1, BootsSomething
    <3>3. Boots' = Boots  BY <1>23, <2>2, <3>1 DEF Schedule, Boots, Matches
    <3>4. Target = None /\ Target' = params  BY <1>23, <2>2, <3>1 DEF Schedule, Target
    <3>5. metadata' = metadata  BY <1>23 DEF Schedule
    <3>6. Promise!Schedule  BY <3>1, <3>2, <3>3, <3>4, <3>5 DEF Promise!Schedule
    <3>. QED  BY <3>6 DEF Promise!Next
  <2>. QED  BY <1>23, <2>1, <2>2 DEF Schedule
<1>24. CASE ApplyStarts
  <2>1. Boots # None  BY <1>24, BootsSomething DEF ApplyStarts
  <2>2. Boots' = Boots  BY <1>24 DEF ApplyStarts, Boots, Matches
  <2>3. CASE applying' = "copy"
    BY <1>24, <2>2, <2>3 DEF ApplyStarts, Target, Promise!vars
  <2>4. CASE applying' = "no"
    <3>1. Target # None /\ Target' = None
      BY <1>24, <2>4 DEF ApplyStarts, Target, TypeOK
    <3>2. Promise!Cancel  BY <1>24, <2>1, <2>2, <3>1 DEF ApplyStarts, Promise!Cancel
    <3>. QED  BY <3>2 DEF Promise!Next
  <2>. QED  BY <1>24, <2>3, <2>4 DEF ApplyStarts
<1>25. CASE CopyChunk
  <2>1. Boots' = None  BY <1>25 DEF CopyChunk, Boots, TypeOK
  <2>2. Target' = Target /\ Target # None  BY <1>25 DEF CopyChunk, Target, TypeOK
  <2>3. CASE copied = 0
    <3>1. Boots # None  BY <1>25, <2>3, BootsSomething DEF CopyChunk
    <3>2. Promise!Overwrite  BY <1>25, <2>1, <2>2, <3>1 DEF CopyChunk, Promise!Overwrite
    <3>. QED  BY <3>2 DEF Promise!Next
  <2>4. CASE copied # 0
    <3>1. Boots = None  BY <1>25, <2>4 DEF CopyChunk, Boots, TypeOK
    <3>. QED  BY <1>25, <2>1, <2>2, <3>1 DEF CopyChunk, Promise!vars
  <2>. QED  BY <2>3, <2>4
<1>26. ASSUME applying = "copy", copied = Size[params], applying' = "no",
             UNCHANGED <<primary, params, copied>>, metadata' \in {metadata, None}
      PROVE  [Promise!Next]_(Promise!vars)
  <2>1. Boots = None  BY <1>26 DEF Boots, TypeOK
  <2>2. params \in Images \ Containers /\ Matches(primary, params)
    BY <1>26 DEF TypeOK, CopyInv, PrimaryInv, Matches
  <2>3. Boots' = params
    <3>1. \A j \in Images \ Containers : Matches(primary, j) => j = params  BY <2>2, OneImage
    <3>2. Boots' = CHOOSE j \in Images \ Containers : Matches(primary, j)
      BY <1>26, <2>2 DEF Boots, Matches
    <3>. QED  BY <2>2, <3>1, <3>2
  <2>4. Target = params /\ Target' = None  BY <1>26 DEF Target
  <2>5. Promise!Install  BY <1>26, <2>1, <2>2, <2>3, <2>4 DEF Promise!Install
  <2>. QED  BY <2>5 DEF Promise!Next
<1>27. CASE Reboot  BY <1>27, <1>26 DEF Reboot, Restart
<1>28. CASE PowerFails
  <2>. USE DEF PowerFails, Restart
  <2>1. CASE applying = "no" \/ applying = "dead"
    BY <1>28, <2>1, <1>1 DEF Target
  <2>2. CASE applying' = "no" /\ (applying = "delay" \/ (applying = "copy" /\ copied = 0))
    <3>1. Boots # None  BY <2>2, BootsSomething
    <3>2. Boots' = Boots  BY <1>28, <2>2 DEF Boots, Matches
    <3>3. Target # None /\ Target' = None  BY <1>28, <2>2 DEF Target, TypeOK
    <3>4. Promise!Cancel  BY <1>28, <3>1, <3>2, <3>3 DEF Promise!Cancel
    <3>. QED  BY <3>4 DEF Promise!Next
  <2>3. CASE applying = "copy" /\ applying' = "no" /\ copied = Size[params]
    BY <1>28, <2>3, <1>26
  <2>4. CASE applying = "copy" /\ applying' = "dead"
    <3>1. Target # None /\ Target' = None  BY <1>28, <2>4 DEF Target, TypeOK
    <3>2. Boots' = None  BY <2>4 DEF Boots
    <3>3. Promise!Lose  BY <1>28, <3>1, <3>2 DEF Promise!Lose
    <3>. QED  BY <3>3 DEF Promise!Next
  <2>5. \/ applying = "no" \/ applying = "dead"
        \/ applying' = "no" /\ (applying = "delay" \/ (applying = "copy" /\ copied = 0))
        \/ applying = "copy" /\ applying' = "no" /\ copied = Size[params]
        \/ applying = "copy" /\ applying' = "dead"
    BY <1>28
  <2>. QED  BY <2>1, <2>2, <2>3, <2>4, <2>5
<1>29. CASE UNCHANGED vars  BY <1>29, <1>1 DEF Target
<1>30. QED
  BY <1>3, <1>4, <1>5, <1>6, <1>7, <1>8, <1>9, <1>10, <1>11, <1>12, <1>13, <1>14, <1>15,
     <1>16, <1>17, <1>18, <1>19, <1>20, <1>21, <1>22, <1>23, <1>24, <1>25, <1>27, <1>28, <1>29
  DEF Next, Request, Handler, ApplyTask

\* The device starts with an image to boot, and nothing staged.
LEMMA PromiseInit == ClientInit => Promise!Init /\ PromiseInv
<1>. SUFFICES ASSUME ClientInit PROVE Promise!Init /\ PromiseInv  OBVIOUS
<1>1. Init  BY DEF ClientInit
<1>2. TypeOK /\ PrimaryInv  BY <1>1, TypeInit, PrimaryInit
<1>3. applying = "no" /\ metadata = None /\ at = "idle"  BY <1>1 DEF Init
<1>4. Boots \in Images \ Containers  BY <1>2, <1>3, BootsSomething
<1>. QED  BY <1>3, <1>4 DEF Promise!Init, Target, PromiseInv

\* For any images, whatever fails while the device fetches, stages and copies one, and if
\* the handshakes of an update outlast the delay of an earlier apply: what the device boots
\* changes only to an application that was approved when its installation was scheduled, and
\* nothing else is approved meanwhile, though the worker goes back to its queue before the
\* copy starts (ota_client.c:588-660, ota_update.c:925-981).
THEOREM UpdateKeepsPromise ==
  ASSUME Writer = "client", HandshakeOutlastsDelay PROVE ClientSpec => KeepsUpdatePromise
<1>1. ClientInv /\ SlotInv /\ PromiseInv /\ [ClientNext]_clientVars => PromiseInv'
  BY PromiseInvStep DEF ClientInv, SlotInv
<1>2. ClientInv /\ SlotInv /\ PromiseInv /\ [ClientNext]_clientVars
        => [Promise!Next]_(Promise!vars)
  <2>. SUFFICES ASSUME ClientInv, SlotInv, PromiseInv, [ClientNext]_clientVars
                PROVE  [Promise!Next]_(Promise!vars)
    OBVIOUS
  <2>. USE DEF ClientInv, SlotInv
  <2>1. CASE [Next]_vars  BY <2>1, StagingKeepsPromise
  <2>2. CASE at = "done" /\ at' = "idle" /\ UNCHANGED <<session, flash, image, chunk, apply>>
    BY <2>2, BootsSame DEF flash, apply, Target, Promise!vars
  <2>. QED  BY <2>1, <2>2, ClientIsWriter
<1>. QED
  BY <1>1, <1>2, PromiseInit, SlotAlways, PTL DEF ClientSpec, KeepsUpdatePromise, Promise!Spec

\* So for any images, wherever the power fails, under the same condition: from the moment
\* its apply task is made to the reset after its copy, what is copied is an application the
\* metadata vouched for, and it vouches for no other (ota_update.c:923-981).
THEOREM ClientInstallsApproved ==
  ASSUME Writer = "client", HandshakeOutlastsDelay
  PROVE  ClientSpec => []Promise!InstallsApproved
<1>. USE DEF Promise!InstallsApproved
<1>1. Promise!Init => Promise!InstallsApproved  BY DEF Promise!Init
<1>2. Promise!InstallsApproved /\ [Promise!Next]_(Promise!vars) => Promise!InstallsApproved'
  <2>. SUFFICES ASSUME Promise!InstallsApproved, [Promise!Next]_(Promise!vars)
                PROVE  Promise!InstallsApproved'
    OBVIOUS
  <2>1. CASE \E i \in Images : Promise!Approve(i)  BY <2>1 DEF Promise!Approve
  <2>2. CASE Promise!Withdraw  BY <2>2 DEF Promise!Withdraw
  <2>3. CASE Promise!Schedule  BY <2>3 DEF Promise!Schedule
  <2>4. CASE Promise!Cancel  BY <2>4 DEF Promise!Cancel
  <2>5. CASE Promise!Overwrite  BY <2>5 DEF Promise!Overwrite
  <2>6. CASE Promise!Install  BY <2>6 DEF Promise!Install
  <2>7. CASE Promise!Lose  BY <2>7 DEF Promise!Lose
  <2>8. CASE UNCHANGED Promise!vars  BY <2>8 DEF Promise!vars
  <2>. QED  BY <2>1, <2>2, <2>3, <2>4, <2>5, <2>6, <2>7, <2>8 DEF Promise!Next
<1>. QED
  BY <1>1, <1>2, UpdateKeepsPromise, PTL DEF KeepsUpdatePromise, Promise!Spec

=============================================================================
