----------------------------- MODULE UpdateClient -----------------------------
(***************************************************************************)
(* Updates fetched by the device: the REST handlers that queue a check or   *)
(* an update and report g_status, the worker task that serves them, the     *)
(* manifest it reads, and the buffer that cuts a download into the chunks   *)
(* the staging area takes.  The staging area, its flash operations, the     *)
(* task that copies and the power are module OtaStaging's, whose writer     *)
(* this worker is.  Source: src/src/ota_client.c.                           *)
(*                                                                         *)
(* Downloads are counted in half pages, four to a chunk; the transport      *)
(* (TLS, redirects, headers) is what it can answer: an error, a file of     *)
(* some length, less of it than announced.                                  *)
(***************************************************************************)
EXTENDS OtaStaging, Sequences

CONSTANTS
  Units,                   \* the images' sizes in half pages
  HandshakeOutlastsDelay   \* the network: the first answer to an update comes later than
                           \* the 750 ms an apply task made before it waits

ChunkUnits == 4
ASSUME UnitsAssumption ==
  /\ Units \in [Images -> Nat \ {0}]
  /\ \A i \in Images : Size[i] = (Units[i] + ChunkUnits - 1) \div ChunkUnits

ASSUME HandshakeAssumption == HandshakeOutlastsDelay \in BOOLEAN

VARIABLES
  queue,       \* g_ota_client_queue
  rest,        \* the TCP/IP thread, between a send and the status it then writes
  job,         \* the worker: "wait", "check", "apply" (in the staging area's hands),
               \* "connect", "body", "flush"
  checkState,  \* g_status.check_state
  applyState,  \* g_status.apply_state
  manifest,    \* manifest_valid, and the releases bin_size and bin_crc32 are of
  body,        \* the file being received and how much of it has been
  fill,        \* g_apply_chunk_fill
  overtaken    \* history: commands that had ended when their start was noted

download == <<body, fill>>
status == <<checkState, applyState, manifest>>
client == <<queue, rest, job, status, download, overtaken>>
clientVars == <<vars, client>>

QueueLength == 2
Queued(c) == \E n \in 1..Len(queue) : queue[n] = c
Applying == job \notin {"wait", "check"}

ClientInit ==
  /\ Init
  /\ queue = <<>>
  /\ rest = "idle"
  /\ job = "wait"
  /\ checkState = "idle" /\ applyState = "idle"
  /\ manifest = [valid |-> FALSE, size |-> image, crc |-> image]
  /\ body = [of |-> image, got |-> 0] /\ fill = 0
  /\ overtaken = {}

-----------------------------------------------------------------------------
(* The REST handlers: queue the command, then note that it has started. *)

AskCheck ==
  /\ rest = "idle"
  /\ checkState # "checking"
  /\ Len(queue) < QueueLength
  /\ queue' = Append(queue, "check")
  /\ rest' = "check"
  /\ UNCHANGED <<vars, job, status, download, overtaken>>

AskApply ==
  /\ rest = "idle"
  /\ applyState \notin {"downloading", "applying"}
  /\ manifest.valid
  /\ Len(queue) < QueueLength
  /\ queue' = Append(queue, "apply")
  /\ rest' = "apply"
  /\ UNCHANGED <<vars, job, status, download, overtaken>>

NoteCheck ==
  /\ rest = "check"
  /\ rest' = "idle"
  /\ checkState' = "checking"
  /\ overtaken' = IF Queued("check") \/ job = "check" THEN overtaken ELSE overtaken \union {"check"}
  /\ UNCHANGED <<vars, queue, job, applyState, manifest, download>>

NoteApply ==
  /\ rest = "apply"
  /\ rest' = "idle"
  /\ applyState' = "downloading"
  /\ overtaken' = IF Queued("apply") \/ Applying THEN overtaken ELSE overtaken \union {"apply"}
  /\ UNCHANGED <<vars, queue, job, checkState, manifest, download>>

-----------------------------------------------------------------------------
(* The worker: a check *)

Take(command) ==
  /\ job = "wait" /\ at = "idle"
  /\ queue # <<>> /\ Head(queue) = command
  /\ queue' = Tail(queue)
  /\ overtaken' = overtaken \ {command}

StartCheck ==
  /\ Take("check")
  /\ job' = "check"
  /\ checkState' = "checking"
  /\ UNCHANGED <<vars, rest, applyState, manifest, download>>

CheckFails ==
  /\ job = "check"
  /\ job' = "wait"
  /\ checkState' = "failed"
  /\ manifest' = [manifest EXCEPT !.valid = FALSE]
  /\ UNCHANGED <<vars, queue, rest, applyState, download, overtaken>>

\* The fields found are written one by one, whether all of them are there or not.
Fields == {"version", "size", "crc"}
ParsedLeniently(i, found) ==    \* mutant: a manifest that lacks a field leaves the last one valid
  [valid |-> manifest.valid \/ found = Fields,
   size |-> IF "size" \in found THEN i ELSE manifest.size,
   crc |-> IF "crc" \in found THEN i ELSE manifest.crc]
Parsed(i, found) ==
  [valid |-> found = Fields,
   size |-> IF "size" \in found THEN i ELSE manifest.size,
   crc |-> IF "crc" \in found THEN i ELSE manifest.crc]

CheckReads(i, found) ==
  /\ job = "check"
  /\ job' = "wait"
  /\ manifest' = Parsed(i, found)
  /\ checkState' = IF found = Fields THEN "ok" ELSE "failed"
  /\ UNCHANGED <<vars, queue, rest, applyState, download, overtaken>>

-----------------------------------------------------------------------------
(* The worker: an update, from the begin to the end of the download *)

FailsQuietly == job' = "wait" /\ UNCHANGED applyState   \* mutant: the status is left as it was
Fails == job' = "wait" /\ applyState' = "failed"

NothingToApply ==
  /\ Take("apply")
  /\ ~manifest.valid
  /\ Fails
  /\ UNCHANGED <<vars, rest, checkState, manifest, download>>

StartApply ==
  /\ Take("apply")
  /\ manifest.valid
  /\ applyState' = "downloading"
  /\ Begin(manifest.crc)
  /\ job' = "connect"
  /\ fill' = 0
  /\ UNCHANGED <<rest, checkState, manifest, body>>

\* The first answer comes after two TLS handshakes at least, the second one with the host
\* of the redirect. Nothing in the code orders them and the delay of an earlier apply task.
Answer(i) ==
  /\ job = "connect" /\ at = "download"
  /\ HandshakeOutlastsDelay => applying # "delay"
  /\ job' = "body"
  /\ body' = [of |-> i, got |-> 0]
  /\ UNCHANGED <<vars, queue, rest, status, fill, overtaken>>

Total == Units[manifest.size]
Length == Units[body.of]
Written == session.received * ChunkUnits     \* g_apply_chunk_next_offset

\* A chunk is flushed when it is full, and the last one when the announced size is.
FlushDueWhenFull(f) == f = ChunkUnits        \* mutant: the last, partial chunk stays in the buffer
FlushDue(f) == f = ChunkUnits \/ Written + f = Total

Read(n) ==
  /\ job = "body" /\ at = "download"
  /\ applying \notin {"copy", "dead"}
  /\ n <= ChunkUnits - fill /\ n <= Length - body.got
  /\ fill' = fill + n
  /\ body' = [body EXCEPT !.got = @ + n]
  /\ job' = IF FlushDue(fill') THEN "flush" ELSE "body"
  /\ UNCHANGED <<vars, queue, rest, status, overtaken>>

\* ota_stage_write takes whole pages, or the end of the image, and no more than it.
Acceptable ==
  /\ Written + fill <= Total
  /\ fill % 2 = 0 \/ Written + fill = Total

Flush ==
  /\ job = "flush"
  /\ Acceptable
  /\ Chunk(body.of, session.received)
  /\ job' = "apply"
  /\ UNCHANGED <<queue, rest, status, download, overtaken>>

Flushed ==
  /\ Verify
  /\ fill' = 0
  /\ job' = "body"
  /\ UNCHANGED <<queue, rest, status, body, overtaken>>

\* A refused chunk, a lost connection, a wrong length: the staging area is cleared.
GiveUpDownload ==
  /\ \/ at = "abort"
     \/ job = "connect" /\ at = "download"
     \/ job = "body" /\ at = "download" /\ (body.got < Length \/ Length # Total)
     \/ job = "flush" /\ ~Acceptable
  /\ Abort
  /\ job' = "apply"
  /\ UNCHANGED <<queue, rest, status, download, overtaken>>

Received == job = "body" /\ body.got = Length /\ Length = Total

EndDownload ==
  /\ Received
  /\ Finalize
  /\ job' = "apply"
  /\ UNCHANGED <<queue, rest, status, download, overtaken>>

-----------------------------------------------------------------------------
(* The worker in the staging area's operations *)

StagingWorks ==
  /\ Invalidate \/ Open \/ Erase \/ Program \/ FlashFails \/ VerifyFails
     \/ EraseMetadata \/ WriteMetadata
  /\ UNCHANGED client

StagingFails ==
  /\ \/ InvalidateFails \/ MetadataFails \/ AbortErase \/ ApplyRefused
     \/ Received /\ FinalizeFails
  /\ Fails
  /\ UNCHANGED <<queue, rest, checkState, manifest, download, overtaken>>

StagedImage ==
  /\ Close
  /\ applyState' = "staged"
  /\ UNCHANGED <<queue, rest, job, checkState, manifest, download, overtaken>>

ApplyStaged == Apply /\ UNCHANGED client

\* xTaskCreate fails, or the worker goes on without waiting for the task it made.
ScheduleApply ==
  /\ Schedule
  /\ IF at' = "idle" THEN Fails ELSE UNCHANGED <<job, applyState>>
  /\ UNCHANGED <<queue, rest, checkState, manifest, download, overtaken>>

Return ==
  /\ Step("done", "idle")
  /\ job' = "wait"
  /\ applyState' = "applying"
  /\ UNCHANGED <<session, flash, image, chunk, apply, queue, rest, checkState, manifest, download,
                 overtaken>>

-----------------------------------------------------------------------------

TaskStep == (ApplyStarts \/ CopyChunk) /\ UNCHANGED client

\* g_status and the queue are made again at every start.
PowerCycle ==
  /\ Reboot \/ PowerFails
  /\ queue' = <<>>
  /\ rest' = "idle"
  /\ job' = "wait"
  /\ checkState' = "idle" /\ applyState' = "idle"
  /\ manifest' = [valid |-> FALSE, size |-> image, crc |-> image]
  /\ body' = [of |-> image, got |-> 0] /\ fill' = 0
  /\ overtaken' = {}

ClientNext ==
  \/ AskCheck \/ AskApply \/ NoteCheck \/ NoteApply
  \/ StartCheck \/ CheckFails \/ \E i \in Images, found \in SUBSET Fields : CheckReads(i, found)
  \/ NothingToApply \/ StartApply \/ \E i \in Images : Answer(i)
  \/ \E n \in 1..ChunkUnits : Read(n)
  \/ Flush \/ Flushed \/ GiveUpDownload \/ EndDownload
  \/ StagingWorks \/ StagingFails \/ StagedImage \/ ApplyStaged \/ ScheduleApply \/ Return
  \/ TaskStep \/ PowerCycle

ClientSpec == ClientInit /\ [][ClientNext]_clientVars

-----------------------------------------------------------------------------
(* Properties *)

\* The image the device boots, outside a copy that has begun to overwrite it.
Boots ==
  IF applying = "dead" \/ (applying = "copy" /\ copied > 0) THEN None
  ELSE IF \E i \in Images \ Containers : Matches(primary, i)
       THEN CHOOSE i \in Images \ Containers : Matches(primary, i)
       ELSE None

Target == IF applying \in {"delay", "copy"} THEN params ELSE None

Promise == INSTANCE FirmwareUpdate WITH
  Apps <- Images \ Containers,
  boots <- Boots,
  approved <- metadata,
  target <- Target

\* The download, the flash operations and the copy keep what an update promises
\* (FirmwareUpdate), whatever fails: ota_update.c:925-981.
KeepsUpdatePromise == Promise!Spec

\* Every variable of the client has its type; a buffer holds no more than a chunk.
ClientTypeOK ==
  /\ queue \in Seq({"check", "apply"}) /\ Len(queue) <= QueueLength
  /\ rest \in {"idle", "check", "apply"}
  /\ job \in {"wait", "check", "apply", "connect", "body", "flush"}
  /\ checkState \in {"idle", "checking", "ok", "failed"}
  /\ applyState \in {"idle", "downloading", "staged", "applying", "failed"}
  /\ manifest \in [valid : BOOLEAN, size : Images, crc : Images]
  /\ body \in [of : Images, got : Nat] /\ body.got <= Length
  /\ fill \in 0..ChunkUnits
  /\ overtaken \subseteq {"check", "apply"}

\* However the network cuts a download up, a file of the announced length reaches the
\* staging area whole, in chunks it accepts (ota_client.c:512-525).
DownloadFitsStaging ==
  /\ job = "flush" /\ Length = Total => Acceptable
  /\ Received /\ at = "download" => Complete

\* The size and the CRC an update is checked against are those of one release,
\* whatever manifests were read before it.
ManifestIsWhole == manifest.valid => manifest.size = manifest.crc

\* "Checking" and "downloading" are said only of a command that is queued or being
\* served, whichever step failed; the one exception is a command that had ended
\* before its handler wrote that it had begun (ota_client.c:813).
StatusIsTrue ==
  /\ checkState = "checking" =>
       job = "check" \/ Queued("check") \/ "check" \in overtaken
  /\ applyState \in {"downloading", "staged"} =>
       Applying \/ Queued("apply") \/ "apply" \in overtaken

=============================================================================
