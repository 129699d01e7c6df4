----------------------------- MODULE Sha2Stream -----------------------------
(***************************************************************************)
(* A client of sha2.c: any sequence of calls on one context that the       *)
(* header allows, with the message cut into calls anywhere; and            *)
(* sha2_file(), which cuts it where fread() does.                          *)
(***************************************************************************)
EXTENDS Sha2

CONSTANTS
  Message(_),  \* the i-th byte of what the client has to say
  ChunkSizes,  \* the lengths of input it gives at once
  ReadSize,    \* the buffer of sha2_file(), 1024
  MaxLen,      \* bound on the length of a message
  Keys,        \* keys of HMACs
  NoOutput     \* a digest not written yet

(* sha2_update() adds the low word of a length to the total: of as many    *)
(* bytes at once as a word has values the rest would not be counted.       *)
ASSUME ChunkSizesAssumption == ChunkSizes \subseteq 0 .. (WordMod - 1)
ASSUME ReadSizeAssumption == ReadSize \in 1 .. (WordMod - 1)
ASSUME MaxLenAssumption == MaxLen \in Nat
ASSUME KeysAssumption ==
  \A k \in Keys : Len(k) \in 0 .. (WordMod - 1) /\ k = [i \in 1 .. Len(k) |-> k[i]]

VARIABLES
  ctx,     \* the context
  mode,    \* what it is in use for, if anything
  is224, key, msg,  \* what the client has given since it started
  output,  \* the last digest
  file,    \* the length of the file and whether an error was seen in it
  ret      \* what sha2_file() has returned, if it has

vars == <<ctx, mode, is224, key, msg, output, file, ret>>
fileVars == <<file, ret>>

NoFile == [size |-> 0, error |-> FALSE]

Init ==
  /\ ctx = NoContext
  /\ mode = "none" /\ is224 = FALSE /\ key = <<>> /\ msg = <<>>
  /\ output = NoOutput
  /\ file = NoFile /\ ret = "none"

(* The next n bytes of the message.                                        *)
Following(n) == [i \in 1 .. n |-> Message(Len(msg) + i)]

Begin(what) ==
  /\ mode # "file"
  /\ mode' = what
  /\ is224' \in BOOLEAN
  /\ msg' = <<>>
  /\ output' = NoOutput /\ ret' = "none"

Start ==
  /\ Begin("hash")
  /\ key' = <<>>
  /\ ctx' = Starts(ctx, is224')
  /\ UNCHANGED file

StartHmac ==
  /\ Begin("hmac")
  /\ key' \in Keys
  /\ ctx' = HmacStarts(ctx, key', is224')
  /\ UNCHANGED file

(* sha2_update() and sha2_hmac_update().                                   *)
Give(n) ==
  /\ Len(msg) + n <= MaxLen
  /\ msg' = msg \o Following(n)
  /\ ctx' = Update(ctx, Following(n))
  /\ UNCHANGED <<mode, is224, key, output>>

GiveChunk ==
  /\ mode \in {"hash", "hmac"}
  /\ \E n \in ChunkSizes : Give(n)
  /\ UNCHANGED fileVars

End ==
  /\ mode = "hash"
  /\ ctx' = Finish(ctx)
  /\ output' = Output(ctx')
  /\ mode' = "none"
  /\ UNCHANGED <<is224, key, msg, fileVars>>

EndHmac ==
  /\ mode = "hmac"
  /\ ctx' = HmacFinish(ctx)
  /\ output' = Output(ctx')
  /\ mode' = "hmac_done"
  /\ UNCHANGED <<is224, key, msg, fileVars>>

ResetHmac ==
  /\ mode \in {"hmac", "hmac_done"}
  /\ ctx' = HmacReset(ctx)
  /\ mode' = "hmac" /\ msg' = <<>>
  /\ UNCHANGED <<is224, key, output, fileVars>>

-----------------------------------------------------------------------------
(***************************************************************************)
(* sha2_file(), whose context is a new one.                                *)
(***************************************************************************)
OpenFile ==
  /\ Begin("file")
  /\ file' \in [size : 0 .. MaxLen, error : {FALSE}]
  /\ key' = <<>>
  /\ ctx' = Starts(NoContext, is224')

OpenFileFails ==
  /\ mode # "file"
  /\ ret' = "error"
  /\ UNCHANGED <<ctx, mode, is224, key, msg, output, file>>

(* fread() gives less than was asked for at the end and after an error;    *)
(* after an error the next call may well give more.                        *)
ReadFile ==
  LET left == file.size - Len(msg)
      full == IF left < ReadSize THEN left ELSE ReadSize
  IN  /\ mode = "file"
      /\ \E n \in 1 .. full :
           /\ Give(n)
           /\ file' = [file EXCEPT !.error = @ \/ n < full]
      /\ UNCHANGED ret

(* Mutated: the end of the file is taken for its success.                  *)
EndOfFileIsSuccess(error) == "ok"

FileResult(error) == IF error THEN "error" ELSE "ok"

(* fread() gives nothing, at the end or after an error.                    *)
CloseFile ==
  /\ mode = "file"
  /\ \E error \in BOOLEAN :
       /\ file.error \/ Len(msg) < file.size => error
       /\ ret' = FileResult(error)
  /\ output' = Output(Finish(ctx))
  /\ ctx' = NoContext
  /\ mode' = "none"
  /\ file' = NoFile
  /\ UNCHANGED <<is224, key, msg>>

Next ==
  \/ Start \/ GiveChunk \/ End
  \/ StartHmac \/ EndHmac \/ ResetHmac
  \/ OpenFile \/ OpenFileFails \/ ReadFile \/ CloseFile

Spec == Init /\ [][Next]_vars

-----------------------------------------------------------------------------
(***************************************************************************)
(* Properties.                                                             *)
(***************************************************************************)
Contract == INSTANCE Sha2Contract

(* What comes out is the digest, or the HMAC, of all that was given since  *)
(* the context was started or reset, wherever the calls have cut it and    *)
(* whatever the context was used for before.                               *)
ImplementsContract == Contract!Spec

(* sha2_file() returns 0 only with the digest of the whole file, also when *)
(* fread() stumbles and recovers.                                          *)
FileComplete ==
  [][mode = "file" /\ ret' = "ok" =>
       /\ ~file.error
       /\ output' = Contract!Hash(is224, [i \in 1 .. file.size |-> Message(i)])]_vars

=============================================================================
