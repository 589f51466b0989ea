------------------------------ MODULE OtaStaging ------------------------------
(***************************************************************************)
(* Firmware updates over Wi-Fi: the staging area in flash, its metadata,    *)
(* the staging session, and the task that copies a staged image over the    *)
(* running one.  Source: src/src/ota_update.c.  The header expects one      *)
(* writer of the staging area at a time, and the module has one: "rest" is  *)
(* the REST handlers driven by a browser or a script, in any order the      *)
(* requests come; "client" is the worker of src/src/ota_client.c, which     *)
(* calls the same operations in the order of its download.                  *)
(*                                                                         *)
(* Flash is counted in chunks of two pages.  What a chunk of flash holds is *)
(* the image it was cut from, "blank" after an erase, or "bad" when it was  *)
(* programmed and does not read back; a CRC over an image identifies it.  A *)
(* flash operation stops the other core and is one step; the power may fail *)
(* between any two, and an operation may be refused (the flash-safe zone is *)
(* not reached).                                                            *)
(***************************************************************************)
EXTENDS Naturals

CONSTANTS
  Images,        \* the files a writer may send
  Containers,    \* those that are UF2 or ELF files, not app.bin
  Size,          \* their sizes in chunks
  SectorChunks,  \* chunks in an erase sector (8)
  Writer,        \* who stages images
  None           \* no metadata

ASSUME ImagesAssumption == Containers \subseteq Images /\ Images \ Containers # {}
ASSUME SizeAssumption == Size \in [Images -> Nat \ {0}]
ASSUME SectorAssumption == SectorChunks \in Nat \ {0}
ASSUME WriterAssumption == Writer \in {"rest", "client"}
ASSUME NoneAssumption == None \notin Images /\ Images \intersect {"blank", "bad"} = {}

VARIABLES
  session,     \* g_ota_session: active, image (size and CRC), received
  metadata,    \* the image the metadata sector vouches for, or None
  staged,      \* the staging area
  primary,     \* the primary slot
  at,          \* where the writer is in a handler
  image,       \* the image its begin, finalize or apply is about
  chunk,       \* g_flash_page and the offset: the chunk it is writing
  applying,    \* g_ota_apply_scheduled, the apply task and the power
  params,      \* g_ota_apply_params
  copied       \* chunks the apply task has copied

flash == <<metadata, staged, primary>>
writer == <<at, image, chunk>>
apply == <<applying, params, copied>>
vars == <<session, flash, writer, apply>>

Offsets == UNION {0..(Size[i] - 1) : i \in Images}
Matches(area, i) == \A o \in 0..(Size[i] - 1) : area[o] = i
NoSession == [active |-> FALSE, image |-> None, received |-> 0]

\* The REST handlers return after each call, the worker goes on to the next one:
\* where a call leaves each when it succeeds and when it fails.
Download == IF Writer = "client" THEN "download" ELSE "idle"
GiveUp == IF Writer = "client" THEN "abort" ELSE "idle"
Staged == IF Writer = "client" THEN "apply" ELSE "idle"
Scheduled == IF Writer = "client" THEN "done" ELSE "idle"

\* While the apply task copies it holds the other core and the interrupts; with
\* half an image in the primary slot nothing boots.
Step(from, to) ==
  /\ applying \notin {"copy", "dead"}
  /\ at = from
  /\ at' = to

Init ==
  /\ session = NoSession
  /\ metadata = None
  /\ staged = [o \in Offsets |-> "blank"]
  /\ \E i \in Images \ Containers : primary = [o \in Offsets |-> i]
  /\ at = "idle"
  /\ image \in Images
  /\ chunk = [image |-> image, offset |-> 0]
  /\ applying = "no" /\ params = image /\ copied = 0

-----------------------------------------------------------------------------
(* Begin: forget the session, erase the metadata, open a session.  An image *)
(* that does not fit ends a begin as a refused erase does.                  *)

Begin(i) ==
  /\ Step("idle", "invalidate")
  /\ session' = NoSession
  /\ image' = i
  /\ UNCHANGED <<flash, chunk, apply>>

InvalidateFails ==
  /\ Step("invalidate", "idle")
  /\ UNCHANGED <<session, flash, image, chunk, apply>>

Invalidate ==
  /\ Step("invalidate", "open")
  /\ metadata' = None
  /\ UNCHANGED <<session, staged, primary, image, chunk, apply>>

Open ==
  /\ Step("open", Download)
  /\ session' = [active |-> TRUE, image |-> image, received |-> 0]
  /\ UNCHANGED <<flash, image, chunk, apply>>

-----------------------------------------------------------------------------
(* Chunk: checks, erase at the start of a sector, program, read back.  The  *)
(* data may be another image's than the one announced.                      *)

Chunk(i, o) ==
  /\ session.active
  /\ o = session.received
  /\ o < Size[session.image]
  /\ Step(Download, IF o % SectorChunks = 0 THEN "erase" ELSE "program")
  /\ chunk' = [image |-> i, offset |-> o]
  /\ UNCHANGED <<session, flash, image, apply>>

Erase ==
  /\ Step("erase", "program")
  /\ staged' = [o \in Offsets |->
       IF o \div SectorChunks = chunk.offset \div SectorChunks THEN "blank" ELSE staged[o]]
  /\ UNCHANGED <<session, metadata, primary, image, chunk, apply>>

\* Programming what is not blank, or a worn cell, reads back as neither.
Program ==
  /\ Step("program", "verify")
  /\ \E c \in {chunk.image, "bad"} :
       /\ staged[chunk.offset] \notin {"blank", chunk.image} => c = "bad"
       /\ staged' = [staged EXCEPT ![chunk.offset] = c]
  /\ UNCHANGED <<session, metadata, primary, image, chunk, apply>>

FlashFails ==
  /\ \E from \in {"erase", "program"} : Step(from, GiveUp)
  /\ UNCHANGED <<session, flash, image, chunk, apply>>

Verify ==
  /\ staged[chunk.offset] = chunk.image
  /\ Step("verify", Download)
  /\ session' = [session EXCEPT !.received = @ + 1]
  /\ UNCHANGED <<flash, image, chunk, apply>>

VerifyFails ==
  /\ staged[chunk.offset] # chunk.image
  /\ Step("verify", GiveUp)
  /\ UNCHANGED <<session, flash, image, chunk, apply>>

-----------------------------------------------------------------------------
(* Finalize: check what is in flash, then vouch for it. *)

Complete == session.active /\ session.received = Size[session.image]

FinalizeUnchecked ==            \* mutant: the CRC of what is in flash is not compared
  /\ Complete
  /\ Step(Download, "erase_metadata")
  /\ image' = session.image
  /\ UNCHANGED <<session, flash, chunk, apply>>

Finalize ==
  /\ Complete
  /\ Matches(staged, session.image)
  /\ Step(Download, "erase_metadata")
  /\ image' = session.image
  /\ UNCHANGED <<session, flash, chunk, apply>>

\* The worker leaves the session as it is when finalize refuses the image.
FinalizeFails ==
  /\ Writer = "client"
  /\ ~(Complete /\ Matches(staged, session.image))
  /\ Step("download", "idle")
  /\ UNCHANGED <<session, flash, image, chunk, apply>>

EraseMetadata ==
  /\ Step("erase_metadata", "write_metadata")
  /\ metadata' = None
  /\ UNCHANGED <<session, staged, primary, image, chunk, apply>>

WriteMetadata ==
  /\ Step("write_metadata", "close")
  /\ metadata' = image
  /\ UNCHANGED <<session, staged, primary, image, chunk, apply>>

MetadataFails ==
  /\ \E from \in {"erase_metadata", "write_metadata"} : Step(from, "idle")
  /\ UNCHANGED <<session, flash, image, chunk, apply>>

Close ==
  /\ Step("close", Staged)
  /\ session' = [session EXCEPT !.active = FALSE]
  /\ UNCHANGED <<flash, image, chunk, apply>>

-----------------------------------------------------------------------------
(* Abort, and the worker's end of a download that failed; whether the erase *)
(* succeeds is not looked at.                                               *)

Abort ==
  /\ \E from \in {Download, GiveUp} : Step(from, "abort_erase")
  /\ session' = NoSession
  /\ UNCHANGED <<flash, image, chunk, apply>>

AbortErase ==
  /\ Step("abort_erase", "idle")
  /\ metadata' \in {None, metadata}
  /\ UNCHANGED <<session, staged, primary, image, chunk, apply>>

-----------------------------------------------------------------------------
(* Apply: check the staged image again, create the task. *)

ApplicableAnyFile ==            \* mutant: a staged UF2 or ELF file is not looked for
  metadata # None /\ Matches(staged, metadata)
Applicable ==
  /\ metadata # None
  /\ metadata \notin Containers
  /\ Matches(staged, metadata)

Apply ==
  /\ Applicable
  /\ applying = "no"
  /\ Step(Staged, "schedule")
  /\ image' = metadata
  /\ params' = metadata
  /\ UNCHANGED <<session, flash, chunk, applying, copied>>

ApplyRefused ==
  /\ Writer = "client"
  /\ ~Applicable
  /\ metadata # None => applying = "no"
  /\ Step("apply", "idle")
  /\ UNCHANGED <<session, flash, image, chunk, apply>>

Schedule ==
  /\ \/ Step("schedule", Scheduled) /\ applying' = "delay"
     \/ Step("schedule", "idle") /\ UNCHANGED applying     \* no task
  /\ UNCHANGED <<session, flash, image, chunk, params, copied>>

\* 750 ms later the task enters the flash-safe zone, or cannot.
ApplyStarts ==
  /\ applying = "delay"
  /\ \/ applying' = "copy" /\ copied' = 0
     \/ applying' = "no" /\ UNCHANGED copied
  /\ UNCHANGED <<session, flash, writer, params>>

CopyChunk ==
  /\ applying = "copy" /\ copied < Size[params]
  /\ primary' = [primary EXCEPT ![copied] = staged[copied]]
  /\ copied' = copied + 1
  /\ UNCHANGED <<session, metadata, staged, writer, applying, params>>

-----------------------------------------------------------------------------
(* Reset: the RAM is lost, the flash stays. *)

Restart ==
  /\ session' = NoSession
  /\ at' = "idle"
  /\ UNCHANGED <<image, chunk, params, copied>>

RebootsEarly ==                 \* mutant: the last, partial chunk is not copied
  /\ applying = "copy" /\ copied = Size[params] - 1
  /\ metadata' = None
  /\ applying' = "no"
  /\ Restart
  /\ UNCHANGED <<staged, primary>>

Reboot ==
  /\ applying = "copy" /\ copied = Size[params]
  /\ metadata' = None
  /\ applying' = "no"
  /\ Restart
  /\ UNCHANGED <<staged, primary>>

\* The slot is whole before the first operation of a copy and after the last.
PowerFails ==
  /\ \/ applying \in {"no", "delay"} /\ applying' = "no"
     \/ applying = "copy" /\ copied \in {0, Size[params]} /\ applying' = "no"
     \/ applying = "copy" /\ copied < Size[params] /\ applying' = "dead"
     \/ applying = "dead" /\ UNCHANGED applying
  /\ Restart
  /\ UNCHANGED flash

-----------------------------------------------------------------------------

\* What the user, the browser or the network decides.
Request ==
  \/ \E i \in Images : Begin(i)
  \/ \E i \in Images, o \in Offsets : Chunk(i, o)
  \/ Finalize \/ Abort \/ Apply

Handler ==
  \/ InvalidateFails \/ Invalidate \/ Open
  \/ Erase \/ Program \/ FlashFails \/ Verify \/ VerifyFails
  \/ FinalizeFails \/ EraseMetadata \/ WriteMetadata \/ MetadataFails \/ Close
  \/ AbortErase \/ ApplyRefused \/ Schedule

ApplyTask == ApplyStarts \/ CopyChunk \/ Reboot

Next == Request \/ Handler \/ ApplyTask \/ PowerFails

Spec == Init /\ [][Next]_vars

-----------------------------------------------------------------------------
(* Properties. *)

Places == {"idle", "invalidate", "open", "download", "erase", "program", "verify",
           "erase_metadata", "write_metadata", "close", "abort", "abort_erase",
           "apply", "schedule", "done"}

\* Every variable holds a value the code can give it; a session has received no more
\* than it announced.
TypeOK ==
  /\ session \in [active : BOOLEAN, image : Images \union {None}, received : Nat]
  /\ session.active => session.image # None /\ session.received <= Size[session.image]
  /\ metadata \in Images \union {None}
  /\ staged \in [Offsets -> Images \union {"blank", "bad"}]
  /\ primary \in [Offsets -> Images \union {"blank", "bad"}]
  /\ at \in Places
  /\ image \in Images
  /\ chunk \in [image : Images, offset : Offsets]
  /\ applying \in {"no", "delay", "copy", "dead"}
  /\ params \in Images
  /\ copied \in Nat

\* Metadata in flash vouches for an image only while every chunk of that image is in
\* the staging area, whichever flash operation failed and wherever the power went.
StagedIsVerified == metadata # None => Matches(staged, metadata)

\* The slot the device boots from holds one whole application image whenever the
\* device is not in the middle of a copy (or lost its power there).
RunsWholeImage ==
  applying \notin {"copy", "dead"} => \E i \in Images \ Containers : Matches(primary, i)

=============================================================================
