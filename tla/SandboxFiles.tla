---------------------------- MODULE SandboxFiles ----------------------------
(***************************************************************************)
(* A file of the sandbox and the transfers of it: SandboxBackend uploads   *)
(* and downloads with shell commands that the exec server runs             *)
(* (sandbox_fs.py, backend_sandbox.py), and other commands write it too.   *)
(*                                                                         *)
(* The file is a sequence of pieces of PieceBytes bytes, each labelled     *)
(* with the transfer that wrote it.  A writer truncates the file and then  *)
(* writes at an offset of its own; a command goes on when its client has   *)
(* gone.                                                                   *)
(***************************************************************************)
EXTENDS Integers, Sequences

CONSTANTS MaxMoves,     \* bound on transfers
          Lengths,      \* of what is written, in pieces
          PieceBytes

ASSUME FilesAssumption ==
  MaxMoves \in Nat /\ Lengths \subseteq Nat /\ PieceBytes \in Nat \ {0}

VARIABLES exists, file,
          newest,       \* the writer that truncated the file last
          moves         \* the transfers, in the order they began
filesVars == <<exists, file, newest, moves>>

-----------------------------------------------------------------------------
\* Sizes, in bytes.

Clip == 60000          \* what the server returns of a stream
SafeBytes == 44415     \* the largest file whose base64 fits
ArgMax == 131072       \* what the kernel takes as one argument
CommandText == 60      \* the command around the data

Base64(n) == 4 * ((n + 2) \div 3)

\* base64 prints lines of 76 characters.
Encoded(n) == Base64(n) + (Base64(n) + 75) \div 76

TooLong(n) == Base64(n) + CommandText >= ArgMax

Missing(n) == Encoded(n) - Clip

(***************************************************************************)
(* "...[truncated <n> chars]" after the first 60,000 characters: decoding  *)
(* skips dots, brackets, blanks and line ends, and takes the 14 letters    *)
(* and the digits for data.  It fails unless the characters it takes come  *)
(* in fours.                                                               *)
(***************************************************************************)
Digits(k) == CHOOSE d \in 1..9 : k < 10^d /\ (d = 1 \/ k >= 10^(d - 1))
Taken(n) == (Clip - Clip \div 77) + 14 + Digits(Missing(n))

\* Decoded without an error into something else.
Silent(n) == Missing(n) > 0 /\ Taken(n) % 4 = 0

-----------------------------------------------------------------------------
\* open - the command has the file open; exited - its exit code is on its way.
Hole == 0    \* what a writer skips over reads as zeros, nobody's pieces
Labels == 0..MaxMoves
Kinds == {"upload", "command", "download"}
Move == [pc : {"open", "exited", "over"},
         kind : Kinds, length : Nat,
         at : Nat,                  \* pieces written
         got : Seq(Labels),         \* pieces read
         code : {0, 1},
         told : {"waiting", "ok", "error"},
         garbled : BOOLEAN,         \* what the client got is not what was read
         met : BOOLEAN,             \* another writer had the file open with it
         source : Labels]           \* the newest writer when a download opened

FilesTypeOK ==
  /\ exists \in BOOLEAN /\ file \in Seq(Labels) /\ newest \in Labels
  /\ moves \in Seq(Move) /\ Len(moves) <= MaxMoves

FilesInit == exists = FALSE /\ file = <<>> /\ newest = Hole /\ moves = <<>>

Writes(x) == moves[x].kind \in {"upload", "command"}

MoveOn(x, from, r) ==
  /\ moves[x].pc = from /\ moves' = [moves EXCEPT ![x] = r]
  /\ UNCHANGED <<exists, newest>>

\* The command of a new transfer, and what the others see of it.
Begin(kind, length, pc, code) ==
  LET writes == kind # "download"
      new == [pc |-> pc, kind |-> kind, length |-> length, at |-> 0, got |-> <<>>,
              code |-> code, told |-> "waiting", garbled |-> FALSE,
              met |-> \E y \in DOMAIN moves : moves[y].pc = "open" /\ Writes(y),
              source |-> IF writes THEN Hole ELSE newest]
      met(y) == moves[y].met \/ (pc = "open" /\ writes /\ moves[y].pc = "open")
  IN  /\ Len(moves) < MaxMoves
      /\ moves' = Append([y \in DOMAIN moves |-> [moves[y] EXCEPT !.met = met(y)]], new)

Refused(kind, length) == kind = "upload" /\ TooLong(length * PieceBytes)

\* The shell cannot be started with an argument that long, and the server's
\* handler raises.  Or mkdir or opening fails: read-only, a directory, no such file.
FailToOpen(kind) ==
  /\ Begin(kind, 0, "exited", 1)
  /\ UNCHANGED <<exists, file, newest>>

\* Mutant of OpenToWrite: the old content stays.
OpenToUpdate(kind, length) ==
  /\ kind # "download" /\ ~Refused(kind, length) /\ Begin(kind, length, "open", 0)
  /\ exists' = TRUE /\ newest' = Len(moves) + 1 /\ UNCHANGED file

\* `> path`
OpenToWrite(kind, length) ==
  /\ kind # "download" /\ ~Refused(kind, length) /\ Begin(kind, length, "open", 0)
  /\ exists' = TRUE /\ file' = <<>> /\ newest' = Len(moves) + 1

OpenToRead ==
  /\ exists /\ Begin("download", 0, "open", 0)
  /\ UNCHANGED <<exists, file, newest>>

\* Mutant of Overwrite: what is skipped is not filled.
OverwriteSparse(s, i, label) ==
  [j \in DOMAIN s \cup {i} |-> IF j = i THEN label ELSE s[j]]

Overwrite(s, i, label) ==
  [j \in 1..(IF i > Len(s) THEN i ELSE Len(s)) |->
     IF j = i THEN label ELSE IF j <= Len(s) THEN s[j] ELSE Hole]

WritePiece(x) ==
  /\ Writes(x) /\ moves[x].at < moves[x].length
  /\ file' = Overwrite(file, moves[x].at + 1, x)
  /\ MoveOn(x, "open", [moves[x] EXCEPT !.at = @ + 1])

ReadPiece(x) ==
  LET n == Len(moves[x].got)
  IN  /\ ~Writes(x) /\ n < Len(file)
      /\ MoveOn(x, "open", [moves[x] EXCEPT !.got = Append(@, file[n + 1])])
      /\ UNCHANGED file

\* Mutant of Through: the exit code is that of the first command of the pipe.
ThroughPipe(x) == TRUE

Through(x) == IF Writes(x) THEN moves[x].at = moves[x].length
                           ELSE Len(moves[x].got) >= Len(file)

\* The pipe's exit code is base64's: the disk is full, or the limit kills it.
Exit(x, code) ==
  MoveOn(x, "open", [moves[x] EXCEPT !.pc = "exited", !.code = code, !.at = 0]) /\ UNCHANGED file
Finish(x) == Through(x) /\ Exit(x, 0)
BreakOff(x) == Exit(x, 1)

\* Mutant of Answer: the exit code is not looked at.
AnswerUnchecked(x) ==
  MoveOn(x, "exited", [moves[x] EXCEPT !.pc = "over", !.told = "ok"]) /\ UNCHANGED file

\* _upload_response, _download_response: empty output is an empty file.
Answer(x) ==
  LET n == Len(moves[x].got) * PieceBytes
      ok == moves[x].code = 0 /\ (Missing(n) > 0 => Silent(n))
  IN  /\ MoveOn(x, "exited", [moves[x] EXCEPT !.pc = "over", !.garbled = ok /\ Silent(n),
                                              !.told = IF ok THEN "ok" ELSE "error"])
      /\ UNCHANGED file

\* The client gave up, the connection broke or the turn was cancelled, any time
\* since the command was posted; the command went on.
LoseAnswer(x) ==
  MoveOn(x, "exited", [moves[x] EXCEPT !.pc = "over", !.told = "error"]) /\ UNCHANGED file

MoveStep(x) ==
  \/ WritePiece(x) \/ ReadPiece(x) \/ Finish(x) \/ BreakOff(x)
  \/ Answer(x) \/ LoseAnswer(x)

FilesRest ==
  /\ Len(moves) = MaxMoves /\ \A x \in DOMAIN moves : moves[x].pc = "over"
  /\ UNCHANGED filesVars

FilesNext ==
  \/ \E kind \in Kinds : FailToOpen(kind) \/ \E n \in Lengths : OpenToWrite(kind, n)
  \/ OpenToRead \/ FilesRest
  \/ \E x \in DOMAIN moves : MoveStep(x)
FilesSpec == FilesInit /\ [][FilesNext]_filesVars

-----------------------------------------------------------------------------
\* Properties.

Whole(x) == [i \in 1..moves[x].length |-> x]

(***************************************************************************)
(* An upload reported as done is in the sandbox, entire, unless another    *)
(* writer had the file open with it or has truncated it since.             *)
(***************************************************************************)
UploadedIsThere ==
  \A x \in DOMAIN moves :
    (Writes(x) /\ moves[x].told = "ok" /\ ~moves[x].met /\ newest = x) => file = Whole(x)

(***************************************************************************)
(* A download that reports content read exactly what the last writer wrote *)
(* before it, if that writer ended well and neither met another writer;    *)
(* and what the client got is what was read unless the file is over        *)
(* 44,415 bytes (then the notice about clipped output may be decoded).     *)
(***************************************************************************)
RoundTrip ==
  \A x \in DOMAIN moves :
    (moves[x].kind = "download" /\ moves[x].told = "ok") =>
      LET w == moves[x].source IN
      /\ (w # Hole /\ moves[w].pc \in {"exited", "over"} /\ moves[w].code = 0
          /\ ~moves[x].met /\ ~moves[w].met) => moves[x].got = Whole(w)
      /\ moves[x].garbled => Len(moves[x].got) * PieceBytes > SafeBytes

(***************************************************************************)
(* A file is of one writer, without holes, unless two had it open at the   *)
(* same time.  A command may outlive its client, so the clients may well   *)
(* have taken turns.                                                       *)
(***************************************************************************)
TornNeedsOverlap ==
  \A i \in 1..Len(file) :
    file[i] = newest \/ (newest # Hole /\ moves[newest].met)

-----------------------------------------------------------------------------
(***************************************************************************)
(* The inductive invariant: what a file holds, as far as the writer that   *)
(* truncated it last met no other, and what the transfers beside it can    *)
(* rely on.                                                                *)
(***************************************************************************)
IsOpen(x) == moves[x].pc = "open"
Reads(x) == moves[x].kind = "download"

\* Who truncated the file last is a writer, and without one the file is empty.
Opened ==
  /\ newest # Hole => newest \in DOMAIN moves /\ Writes(newest)
  /\ newest = Hole => file = <<>> /\ \A x \in DOMAIN moves : Writes(x) => ~IsOpen(x)

\* Of the writers that met nobody, only the newest can have the file open.
LoneWriter ==
  newest # Hole /\ ~moves[newest].met =>
    \A y \in DOMAIN moves : IsOpen(y) /\ Writes(y) => y = newest

\* What the newest writer has written, if it met nobody.
Content ==
  newest # Hole /\ ~moves[newest].met =>
    /\ \A i \in 1..Len(file) : file[i] = newest
    /\ IsOpen(newest) => Len(file) = moves[newest].at
    /\ ~IsOpen(newest) /\ moves[newest].code = 0 => Len(file) = moves[newest].length

\* While a download that met nobody has the file open, nobody has it open to write.
Undisturbed ==
  \A x \in DOMAIN moves :
    Reads(x) /\ IsOpen(x) /\ ~moves[x].met =>
      /\ newest = moves[x].source
      /\ \A y \in DOMAIN moves : IsOpen(y) => ~Writes(y)
      /\ Len(moves[x].got) <= Len(file)
      /\ \A i \in 1..Len(moves[x].got) : moves[x].got[i] = file[i]

\* Nor had it anybody when the download began: its source had ended.
Good(w) == moves[w].code = 0 /\ ~moves[w].met
Sources ==
  \A x \in DOMAIN moves :
    LET w == moves[x].source
    IN  /\ Reads(x) /\ w # Hole => w \in DOMAIN moves
        /\ Reads(x) /\ w # Hole /\ ~moves[x].met => ~IsOpen(w)
        /\ (Reads(x) /\ ~IsOpen(x) /\ ~moves[x].met /\ moves[x].code = 0 /\ w # Hole /\ Good(w)) =>
             moves[x].got = Whole(w)

\* What the clients were told.
Reports ==
  \A x \in DOMAIN moves :
    /\ moves[x].told = "ok" => moves[x].pc = "over" /\ moves[x].code = 0
    /\ moves[x].garbled => moves[x].pc = "over" /\ Len(moves[x].got) * PieceBytes > SafeBytes

\* All of it: what every step of a transfer keeps.
FilesInv == FilesTypeOK /\ Opened /\ LoneWriter /\ Content /\ Undisturbed /\ Sources /\ Reports
=============================================================================
