----------------------------- MODULE FileSecure -----------------------------
(***************************************************************************)
(* File encryption and decryption (src/src/filesecure.c).                  *)
(*                                                                         *)
(* The "Confirmer" button runs one job on the thread of the main loop:     *)
(* AES-256-CBC with padding over chunks of DECRYPT_BUFFER_SIZE bytes, the  *)
(* salt and the initialisation vector first in the encrypted file.  Every  *)
(* library call may fail, as Faults allows; the code tests some of the     *)
(* results and ignores others (fwrite, fclose, the error flag of fread).   *)
(*                                                                         *)
(* A byte is symbolic: byte "at" of a plain file, or of the salt, vector   *)
(* or ciphertext of encryption "run".  runs[r] says what ciphertext r      *)
(* stands for; under another password or header it stands for garbage.     *)
(***************************************************************************)
EXTENDS Integers, Sequences

CONSTANTS
  Paths,      \* names of files
  Passwords,
  NoJob,      \* while the handler does not run
  Absent,     \* what a path holds when there is no file
  Originals,  \* the files the user starts with: sequences of plain bytes
  SaltLen,    \* 8 bytes
  BlockLen,   \* 16 bytes, the block of AES and its vector
  BufLen,     \* DECRYPT_BUFFER_SIZE, 1024 bytes
  MaxRuns,    \* bound of the model: how many encryptions may be started
  Faults      \* the calls that may fail: see FaultsAssumption

ASSUME SizesAssumption ==
  /\ SaltLen \in Nat \ {0}
  /\ BlockLen \in Nat \ {0}
  /\ BufLen \in Nat \ {0}
  /\ MaxRuns \in Nat

\* "key": RAND_bytes, PBKDF2; "dest": fopen of the destination; "cipher": the
\* EVP calls; "read": fread; "disk": the disk fills up.
ASSUME FaultsAssumption == Faults \subseteq {"key", "dest", "cipher", "read", "disk"}

Byte == [kind: {"plain", "salt", "iv", "cipher", "pad", "garbage"}, run: Nat, at: Nat]
Plain(i) == [kind |-> "plain", run |-> 0, at |-> i]
Pad(n) == [kind |-> "pad", run |-> 0, at |-> n]
Garbage == [kind |-> "garbage", run |-> 0, at |-> 0]

Job == [mode: {"encrypt", "decrypt"}, src: Paths, dst: Paths, password: Passwords]

ASSUME OriginalsAssumption ==
  /\ Originals \subseteq Seq(Byte)
  /\ Absent \notin Seq(Byte)
  /\ NoJob \notin Job

ERR_FILE_OPEN == -1
ERR_AES_KEY == -2

VARIABLES
  fs,       \* the bytes of each file, or Absent
  step,     \* what the handler does next
  job,      \* the four fields of the window, read when the button is clicked
  pos,      \* how far the source has been read
  out,      \* the bytes given to fwrite, on their way to the destination
  used,     \* how much of buffer_out the last EVP call needed
  result,   \* the handler's result, meaningful when step = "report"
  runs,     \* each encryption: its password and the text it was given
  before,   \* history: the files when the button was clicked
  trouble   \* history: the failures of this job that the code does not see

vars == <<fs, step, job, pos, out, used, result, runs, before, trouble>>

Steps == {"idle", "derive", "input", "output", "start", "loop", "final", "report", "exited"}
HeaderLen == SaltLen + BlockLen

Init ==
  /\ fs \in [Paths -> Originals \union {Absent}]
  /\ step = "idle"
  /\ job = NoJob
  /\ pos = 0 /\ used = 0 /\ result = 0
  /\ out = <<>> /\ runs = <<>>
  /\ before = fs
  /\ trouble = {}

----------------------------------------------------------------------------
(* Bytes                                                                   *)

Minimum(a, b) == IF a < b THEN a ELSE b

\* The bytes first, first + 1, ..., last of the salt, vector or ciphertext of r.
Stream(kind, r, first, last) ==
  [i \in 1 .. last - first + 1 |-> [kind |-> kind, run |-> r, at |-> first + i - 1]]

\* What encryptFile writes before the ciphertext.
Header(r) == Stream("salt", r, 1, SaltLen) \o Stream("iv", r, 1, BlockLen)

\* The file f starts as encryption r of rs does, and password is that of r.
Unlocks(rs, f, password, r) ==
  LET sealed == Stream("salt", r, 1, SaltLen) \o Stream("iv", r, 1, BlockLen)
                  \o Stream("cipher", r, 1, Len(rs[r].text))
  IN  /\ password = rs[r].password
      /\ Len(f) <= Len(sealed)
      /\ f = SubSeq(sealed, 1, Len(f))

\* What the ciphertext of f decrypts to, padding included.
Deciphered(rs, f, password) ==
  [i \in 1 .. Len(f) - HeaderLen |->
     IF \E r \in DOMAIN rs : Unlocks(rs, f, password, r)
     THEN rs[CHOOSE r \in DOMAIN rs : Unlocks(rs, f, password, r)].text[i]
     ELSE Garbage]

\* The padding lengths DecryptFinal may find in a last block; 0 if it finds
\* none.  Bytes that are not padding may look like it.
PaddingOf(block) ==
  LET last == block[BlockLen]
  IN  IF last.kind = "pad" /\ last.at \in 1 .. BlockLen
      THEN {last.at}
      ELSE 0 .. BlockLen

\* The bytes of the complete blocks among n.
Blocks(n) == (n \div BlockLen) * BlockLen

\* The bytes that DecryptUpdate has let out after n: it holds the last complete
\* block back when nothing follows it.
Released(n) == IF n = 0 THEN 0 ELSE Blocks(n - 1)

\* Seeded fault: the output buffer has no room for one more block.
OutBufLenShort(n) == n

\* The length of buffer_out, for an input buffer of n bytes.
OutBufLen(n) == n + BlockLen

----------------------------------------------------------------------------
(* Steps shared by the two modes                                           *)

Encrypting == job.mode = "encrypt"

\* fclose of the destination: all bytes reach the file, or those that fit.
Close(bytes) ==
  \/ /\ fs' = [fs EXCEPT ![job.dst] = bytes]
     /\ UNCHANGED trouble
  \/ /\ "disk" \in Faults
     /\ \E n \in 0 .. Len(bytes) - 1 : fs' = [fs EXCEPT ![job.dst] = SubSeq(bytes, 1, n)]
     /\ trouble' = trouble \union {"disk"}

\* The box "Erreur lors du traitement.", both files closed.
Fail(code) ==
  /\ step' = "report"
  /\ result' = code
  /\ Close(out)
  /\ UNCHANGED <<job, pos, out, used, runs, before>>

\* buttonClick reads the fields.
Confirm(j) ==
  /\ step = "idle"
  /\ j.mode = "encrypt" => Len(runs) < MaxRuns
  /\ job' = j
  /\ step' = "derive"
  /\ before' = fs
  /\ UNCHANGED <<fs, pos, out, used, result, runs, trouble>>

\* deriveKeyAndIV, called with generate in both modes: it succeeds, or ends the
\* process.
DeriveKeyAndIV ==
  /\ step = "derive"
  /\ \/ step' = "input"
     \/ "key" \in Faults /\ step' = "exited"
  /\ UNCHANGED <<fs, job, pos, out, used, result, runs, before, trouble>>

\* Seeded fault: the destination is opened, and emptied, before the source.
OpenOutputFirst ==
  /\ step = "input"
  /\ fs' = [fs EXCEPT ![job.dst] = <<>>]
  /\ \/ fs[job.src] # Absent /\ step' = "start" /\ UNCHANGED result
     \/ fs[job.src] = Absent /\ step' = "report" /\ result' = ERR_FILE_OPEN
  /\ UNCHANGED <<job, pos, out, used, runs, before, trouble>>

\* fopen(input_file, "rb").
OpenInput ==
  /\ step = "input"
  /\ \/ fs[job.src] # Absent /\ step' = "output" /\ UNCHANGED result
     \/ fs[job.src] = Absent /\ step' = "report" /\ result' = ERR_FILE_OPEN
  /\ UNCHANGED <<fs, job, pos, out, used, runs, before, trouble>>

\* fopen(output_file, "wb") empties the file, which may be the source.
OpenOutput ==
  /\ step = "output"
  /\ \/ /\ step' = "start"
        /\ fs' = [fs EXCEPT ![job.dst] = <<>>]
        /\ UNCHANGED result
     \/ /\ "dest" \in Faults
        /\ step' = "report" /\ result' = ERR_FILE_OPEN
        /\ UNCHANGED fs
  /\ UNCHANGED <<job, pos, out, used, runs, before, trouble>>

\* The bytes fread may return: as many as there are and the buffer takes, or
\* fewer when the medium fails.  Only 0 ends the loop, as it does at the end of
\* the file.
ReadLengths ==
  LET most == Minimum(BufLen, Len(fs[job.src]) - pos)
  IN  {most} \union (IF "read" \in Faults THEN 0 .. most ELSE {})

\* Seeded fault: the loop goes on when fread returns 0.
EndOfInputMissed ==
  /\ step = "loop"
  /\ 0 \in ReadLengths
  /\ UNCHANGED vars

EndOfInput ==
  /\ step = "loop"
  /\ 0 \in ReadLengths
  /\ step' = "final"
  /\ trouble' = IF pos < Len(fs[job.src]) THEN trouble \union {"read"} ELSE trouble
  /\ UNCHANGED <<fs, job, pos, out, used, result, runs, before>>

\* A tested call of the cipher fails, at its creation, in the loop or at the end.
CipherFails ==
  /\ "cipher" \in Faults
  /\ step \in {"start", "loop", "final"}
  /\ Fail(ERR_AES_KEY)

\* Seeded fault: the handler returns and its locals stay.
DismissReportKeeping ==
  /\ step = "report"
  /\ step' = "idle"
  /\ UNCHANGED <<fs, job, pos, out, used, result, runs, before, trouble>>

\* The result box is answered and the handler returns: its locals are gone.
DismissReport ==
  /\ step = "report"
  /\ step' = "idle"
  /\ job' = NoJob
  /\ pos' = 0 /\ used' = 0 /\ result' = 0 /\ out' = <<>>
  /\ before' = fs /\ trouble' = {}
  /\ UNCHANGED <<fs, runs>>

----------------------------------------------------------------------------
(* encryptFile                                                             *)

\* The context is made; the salt and the vector are written.
StartEncrypt ==
  /\ step = "start" /\ Encrypting
  /\ runs' = Append(runs, [password |-> job.password, text |-> <<>>])
  /\ out' = Header(Len(runs) + 1)
  /\ step' = "loop"
  /\ UNCHANGED <<fs, job, pos, used, result, before, trouble>>

\* One turn of the loop: EncryptUpdate lets the complete blocks out.
EncryptChunk ==
  /\ step = "loop" /\ Encrypting
  /\ \E n \in ReadLengths \ {0} :
       LET r == Len(runs)
           had == Len(runs[r].text)
       IN  /\ pos' = pos + n
           /\ runs' = [runs EXCEPT ![r].text = @ \o SubSeq(fs[job.src], pos + 1, pos + n)]
           /\ out' = out \o Stream("cipher", r, Blocks(had) + 1, Blocks(had + n))
           /\ used' = Blocks(had + n) - Blocks(had)
  /\ UNCHANGED <<fs, step, job, result, before, trouble>>

\* Seeded fault: the last block is forgotten.
EncryptFinalForgotten ==
  /\ step = "final" /\ Encrypting
  /\ Close(out)
  /\ step' = "report" /\ result' = 0
  /\ UNCHANGED <<job, pos, out, used, runs, before>>

\* EncryptFinal pads the last block, if only to mark that nothing is missing.
EncryptFinal ==
  /\ step = "final" /\ Encrypting
  /\ LET r == Len(runs)
         had == Len(runs[r].text)
         padding == BlockLen - (had % BlockLen)
         last == Stream("cipher", r, Blocks(had) + 1, had + padding)
     IN  /\ runs' = [runs EXCEPT ![r].text = @ \o [i \in 1 .. padding |-> Pad(padding)]]
         /\ out' = out \o last
         /\ used' = BlockLen
         /\ Close(out \o last)
  /\ step' = "report" /\ result' = 0
  /\ UNCHANGED <<job, pos, before>>

----------------------------------------------------------------------------
(* decryptFile                                                             *)

\* The salt and the vector are read, the key derived again (or the process
\* ended), the context made.
StartDecrypt ==
  /\ step = "start" /\ ~ Encrypting
  /\ \/ Len(fs[job.src]) < HeaderLen /\ Fail(ERR_AES_KEY)
     \/ /\ Len(fs[job.src]) >= HeaderLen
        /\ pos' = HeaderLen
        /\ \/ step' = "loop"
           \/ "key" \in Faults /\ step' = "exited"
        /\ UNCHANGED <<fs, job, out, used, result, runs, before, trouble>>

\* Seeded fault: as many bytes are written as were read, not as the cipher gave.
DecryptChunkAsRead ==
  /\ step = "loop" /\ ~ Encrypting
  /\ \E n \in ReadLengths \ {0} :
       LET had == pos - HeaderLen
           text == Deciphered(runs, fs[job.src], job.password)
       IN  /\ pos' = pos + n
           /\ out' = out \o SubSeq(text, Released(had) + 1, had + n)
           /\ used' = Blocks(had + n) - Released(had)
  /\ UNCHANGED <<fs, step, job, result, runs, before, trouble>>

\* One turn of the loop.  A block held back by the last turn goes out first.
DecryptChunk ==
  /\ step = "loop" /\ ~ Encrypting
  /\ \E n \in ReadLengths \ {0} :
       LET had == pos - HeaderLen
           text == Deciphered(runs, fs[job.src], job.password)
       IN  /\ pos' = pos + n
           /\ out' = out \o SubSeq(text, Released(had) + 1, Released(had + n))
           /\ used' = Blocks(had + n) - Released(had)
  /\ UNCHANGED <<fs, step, job, result, runs, before, trouble>>

\* Seeded fault: what DecryptFinal lets out is not written.
DecryptFinalForgotten ==
  /\ step = "final" /\ ~ Encrypting
  /\ pos > HeaderLen
  /\ Close(out)
  /\ step' = "report" /\ result' = 0
  /\ UNCHANGED <<job, pos, out, used, runs, before>>

\* DecryptFinal refuses an incomplete block, no block, or a wrong padding;
\* otherwise it lets out what the padding leaves of the last block.
DecryptFinal ==
  /\ step = "final" /\ ~ Encrypting
  /\ LET had == pos - HeaderLen
         text == Deciphered(runs, fs[job.src], job.password)
         block == SubSeq(text, had - BlockLen + 1, had)
     IN  \/ /\ had = 0 \/ had % BlockLen # 0
            /\ Fail(ERR_AES_KEY)
         \/ /\ had > 0 /\ had % BlockLen = 0
            /\ 0 \in PaddingOf(block)
            /\ Fail(ERR_AES_KEY)
         \/ /\ had > 0 /\ had % BlockLen = 0
            /\ \E padding \in PaddingOf(block) \ {0} :
                 LET last == SubSeq(block, 1, BlockLen - padding)
                 IN  /\ out' = out \o last
                     /\ used' = Len(last)
                     /\ Close(out \o last)
            /\ step' = "report" /\ result' = 0
            /\ UNCHANGED <<job, pos, runs, before>>

----------------------------------------------------------------------------

Handler ==
  \/ DeriveKeyAndIV
  \/ OpenInput
  \/ OpenOutput
  \/ StartEncrypt \/ EncryptChunk \/ EncryptFinal
  \/ StartDecrypt \/ DecryptChunk \/ DecryptFinal
  \/ EndOfInput

Next == (\E j \in Job : Confirm(j)) \/ Handler \/ CipherFails \/ DismissReport

Spec == Init /\ [][Next]_vars

\* The handler runs until it returns, though no tested call of the cipher has to
\* fail for that; the user answers its box.
FairSpec == Spec /\ WF_vars(Handler) /\ WF_vars(DismissReport)

----------------------------------------------------------------------------
(* Properties                                                              *)

Contents == Seq(Byte) \union {Absent}

TypeOK ==
  /\ fs \in [Paths -> Contents]
  /\ step \in Steps
  /\ job \in Job \union {NoJob}
  /\ job = NoJob <=> step = "idle"
  /\ pos \in Nat
  /\ out \in Seq(Byte)
  /\ used \in Nat
  /\ result \in {0, ERR_FILE_OPEN, ERR_AES_KEY}
  /\ runs \in Seq([password: Passwords, text: Seq(Byte)])
  /\ before \in [Paths -> Contents]
  /\ trouble \subseteq {"read", "disk"}

\* No EVP call ever stores more bytes in buffer_out than it has, the block that
\* DecryptUpdate holds back and gives with the next chunk included.
OutputFitsBuffer == used <= OutBufLen(BufLen)

\* What decrypting a whole file at once may give: nothing if it is cut inside a
\* block or has no padding.
WholeDecryption(rs, f, password) ==
  LET n == Len(f) - HeaderLen
      text == Deciphered(rs, f, password)
  IN  IF n <= 0 \/ n % BlockLen # 0
      THEN {}
      ELSE {SubSeq(text, 1, n - padding) :
              padding \in PaddingOf(SubSeq(text, n - BlockLen + 1, n)) \ {0}}

Succeeded(mode) == step = "report" /\ result = 0 /\ job.mode = mode

\* When no read or write failed behind its back and the two paths differ, an
\* encryption that reports success has made a file from which the password, in
\* one decryption, gives exactly the source, for every length of the source.
EncryptionIsRecoverable ==
  Succeeded("encrypt") /\ trouble = {} /\ job.src # job.dst
    => WholeDecryption(runs, fs[job.dst], job.password) = {before[job.src]}

\* Chunk by chunk, a decryption that reports success gives what the decryption
\* of the whole file at once gives: no block is lost, repeated or let out with
\* its padding, whatever the chunks.
DecryptionIsWhole ==
  Succeeded("decrypt") /\ trouble = {}
    => fs[job.dst] \in WholeDecryption(runs, before[job.src], job.password)

\* The result ERR_FILE_OPEN says that no file has been changed.
OpenErrorChangesNothing ==
  step = "report" /\ result = ERR_FILE_OPEN => fs = before

\* Whatever fails, seen or unseen, a job has changed no file but its destination,
\* and what a decryption leaves there is the file that was there or a beginning
\* of what it decrypts, however far it got.
DamageIsContained ==
  step = "report" =>
    /\ \A p \in Paths \ {job.dst} : fs[p] = before[p]
    /\ job.mode = "decrypt" /\ fs[job.dst] # before[job.dst] =>
         LET left == fs[job.dst]
             text == Deciphered(runs, before[job.src], job.password)
         IN  Len(left) <= Len(text) /\ left = SubSeq(text, 1, Len(left))

\* A job always ends, in its result box or with the process.
JobEnds == step = "derive" ~> step \in {"report", "exited"}

----------------------------------------------------------------------------
(* What the documentation says and the code does not do                    *)

\* README: the encrypted file is saved and the original can be had back from it.
\* So "Opération réussie !" means that it can.
SuccessIsRecoverable ==
  Succeeded("encrypt") /\ job.src # job.dst
    => WholeDecryption(runs, fs[job.dst], job.password) = {before[job.src]}

\* The same of an encryption whose destination is its source.
InPlaceIsRecoverable ==
  Succeeded("encrypt") /\ job.src = job.dst /\ trouble = {}
    => WholeDecryption(runs, fs[job.dst], job.password) = {before[job.src]}

=============================================================================
