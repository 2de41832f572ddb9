------------------------------ MODULE Checksum ------------------------------
(***************************************************************************)
(* md5sum, sha1sum, sha224sum, sha256sum and crc32 of string/.  A          *)
(* behaviour prints a list for some files, then the list or one of the     *)
(* files may change, then the same applet checks the list with -c.         *)
(*                                                                         *)
(* Abstracted: standard input as an operand, what is printed about a line  *)
(* of the list, -w (it only adds messages), lines longer than the buffer   *)
(* of fgets() and more than one list.                                      *)
(***************************************************************************)
EXTENDS BlockDigest, FiniteSetsExt, SequencesExt

CONSTANTS
    Applets,        \* md5sum, sha1sum, sha224sum, sha256sum, crc32
    Folders,        \* the files a run may find: functions from names to contents
    OperandLists,   \* sequences of names; a name is a sequence of letters and " "
    Options,        \* [binary, tag, zero] to print, [tagged, strict, ignoreMissing] to check
    Chunk,          \* the size of the read buffer, 4096 or 8192
    ReadsFail       \* whether open() and read() may fail

ASSUME ChecksumAssumption ==
    /\ Chunk \in Nat \ {0} /\ ReadsFail \in BOOLEAN
    /\ Applets \subseteq {"md5sum", "sha1sum", "sha224sum", "sha256sum", "crc32"}

ASSUME OperandsAssumption ==
    \A names \in OperandLists : names \in Seq(ToSet(names))

(* No file has an empty name.                                              *)
FileBytes == UNION {UNION {ToSet(f[n]) : n \in DOMAIN f} : f \in Folders}

ASSUME FoldersAssumption ==
    \A f \in Folders : f \in [DOMAIN f -> Seq(FileBytes)] /\ <<>> \notin DOMAIN f

VARIABLES
    applet,     \* the applet that runs
    opts,       \* its options, of both runs
    asked,      \* the names it is given
    files,      \* the files: name -> bytes
    mode,       \* "compute", then "check" (flag_check)
    pc,         \* next operand or line | read | hashed | exit
    at,         \* the operand or the line
    name,       \* the file that is hashed
    ctx,        \* its digest context
    offset,     \* the bytes of it that were read
    digest,     \* its digest
    list,       \* the list: [form, name, digest]
    exitStatus, \* exit_status
    failed,     \* the operands or lines whose file could not be opened or read
    listCut,    \* whether the list could not be read to its end
    printed     \* the files and the list when the list was printed

sumVars == <<applet, opts, asked, files, mode, pc, at, name, ctx, offset, digest, list,
             exitStatus, failed, listCut, printed>>

Md5 == applet = "md5sum"
Crc == applet = "crc32"

-----------------------------------------------------------------------------
(* The applets differ in the names of their functions.                     *)
NewContext ==
    CASE Md5 -> Md5Init
      [] Crc -> CrcInit
      [] applet = "sha1sum" -> Sha1Init
      [] applet = "sha224sum" -> Sha224Init
      [] applet = "sha256sum" -> Sha256Init

Updated(data) ==
    CASE Md5 -> Md5Update(ctx, data)
      [] Crc -> CrcUpdate(ctx, data)
      [] applet = "sha1sum" -> Sha1Update(ctx, data)
      [] applet = "sha224sum" -> Sha224Update(ctx, data)
      [] applet = "sha256sum" -> Sha256Update(ctx, data)

Finished ==
    CASE Md5 -> Md5Final(ctx)
      [] Crc -> CrcFinal(ctx)
      [] applet = "sha1sum" -> Sha1Final(ctx)
      [] applet = "sha224sum" -> Sha224Final(ctx)
      [] applet = "sha256sum" -> Sha256Final(ctx)

SumStart(a, o, names, folder) ==
    /\ applet = a /\ opts = o /\ asked = names /\ files = folder
    /\ mode = "compute" /\ pc = "next" /\ at = 1
    /\ name = <<>> /\ ctx = NewContext /\ offset = 0 /\ digest = <<>>
    /\ list = <<>> /\ exitStatus = 0 /\ failed = {} /\ listCut = FALSE
    /\ printed = [files |-> files, list |-> <<>>]

SumInit ==
    \E a \in Applets, o \in Options, names \in OperandLists, folder \in Folders :
        SumStart(a, o, names, folder)

Unchanging == UNCHANGED <<applet, opts, asked, files, mode, listCut, printed>>

-----------------------------------------------------------------------------
(* One file: open, init, read and update until the end, final.             *)
Openable(n) == n \in DOMAIN files

Start(n) ==
    /\ Openable(n)
    /\ pc' = "read" /\ name' = n /\ ctx' = NewContext /\ offset' = 0
    /\ UNCHANGED <<at, digest, list, exitStatus, failed>> /\ Unchanging

(* A file that gives no digest.  md5sum returns at the first such operand, *)
(* the others go on, and crc32 says nothing of it in its status; a line of *)
(* a list is always followed by the next.                                  *)
\* Mutant of GiveUp: md5sum forgets the status as it goes on
GiveUp_GoesOn ==
    /\ failed' = failed \cup {at}
    /\ exitStatus' = IF (Md5 \/ Crc) /\ mode = "compute" THEN exitStatus ELSE 1
    /\ pc' = "next" /\ at' = at + 1
    /\ UNCHANGED <<name, ctx, offset, digest, list>> /\ Unchanging

GiveUp ==
    /\ failed' = failed \cup {at}
    /\ exitStatus' = IF Crc /\ mode = "compute" THEN exitStatus ELSE 1
    /\ IF Md5 /\ mode = "compute" THEN pc' = "exit" /\ at' = at
                                  ELSE pc' = "next" /\ at' = at + 1
    /\ UNCHANGED <<name, ctx, offset, digest, list>> /\ Unchanging

(* read() of md5sum may return less than it was asked for, fread() of the  *)
(* others does so only at the end.                                         *)
ReadChunk ==
    /\ pc = "read"
    /\ LET most == Min({Chunk, Len(files[name]) - offset})
       IN \E n \in IF Md5 THEN 1..most ELSE {most} \ {0} :
            /\ ctx' = Updated(SubSeq(files[name], offset + 1, offset + n))
            /\ offset' = offset + n
    /\ UNCHANGED <<pc, at, name, digest, list, exitStatus, failed>> /\ Unchanging

Md5ReadFails ==
    /\ Md5 /\ pc = "read" /\ ReadsFail
    /\ GiveUp

(* ferror() is asked when fread() has returned 0, so what was read before  *)
(* the error is hashed and the digest dropped.                             *)
ShaReadFails ==
    /\ ~Md5 /\ pc = "read" /\ ReadsFail
    /\ GiveUp

ReadEnds ==
    /\ pc = "read" /\ offset = Len(files[name])
    /\ pc' = "hashed" /\ digest' = Finished
    /\ UNCHANGED <<at, name, ctx, offset, list, exitStatus, failed>> /\ Unchanging

-----------------------------------------------------------------------------
(* Printing a list.                                                        *)
Computing == mode = "compute" /\ pc = "next" /\ at \in DOMAIN asked

OpenOperand == Computing /\ Start(asked[at])

OperandFails ==
    /\ Computing
    /\ ~Openable(asked[at]) \/ ReadsFail
    /\ GiveUp

Form == IF Crc THEN "text" ELSE IF opts.tag THEN "tag" ELSE IF opts.binary THEN "binary" ELSE "text"

PrintLine ==
    /\ mode = "compute" /\ pc = "hashed"
    /\ list' = Append(list, [form |-> Form, name |-> asked[at], digest |-> digest])
    /\ pc' = "next" /\ at' = at + 1
    /\ UNCHANGED <<name, ctx, offset, digest, exitStatus, failed>> /\ Unchanging

Leave == pc' = "exit" /\ UNCHANGED <<at, name, ctx, offset, digest, list, failed>>

ComputeEnds ==
    /\ mode = "compute" /\ pc = "next" /\ at > Len(asked)
    /\ Leave /\ UNCHANGED exitStatus /\ Unchanging

-----------------------------------------------------------------------------
(* Between the runs: nothing, another content for a file, a file removed,  *)
(* or a line of the list that no longer has the form of one.               *)
Bad == [form |-> "bad", name |-> <<>>, digest |-> <<>>]

Between ==
    /\ mode = "compute" /\ pc = "exit" /\ list # <<>>
    /\ printed' = [files |-> files, list |-> list]
    /\ \/ UNCHANGED <<files, list>>
       \/ /\ \E n \in DOMAIN files, folder \in Folders :
               /\ n \in DOMAIN folder
               /\ files' = [files EXCEPT ![n] = folder[n]]
          /\ UNCHANGED list
       \/ /\ \E n \in DOMAIN files : files' = [m \in DOMAIN files \ {n} |-> files[m]]
          /\ UNCHANGED list
       \/ /\ \E i \in DOMAIN list : list' = [list EXCEPT ![i] = Bad]
          /\ UNCHANGED files
    /\ mode' = "check" /\ pc' = "next" /\ at' = 1 /\ exitStatus' = 0 /\ failed' = {}
    /\ UNCHANGED <<applet, opts, asked, name, ctx, offset, digest, listCut>>

-----------------------------------------------------------------------------
(* What of the list fgets() finds: with -z the lines end in NUL, so they   *)
(* are one line that ends for strlen() and sscanf() at the first NUL.      *)
Found == IF opts.zero /\ ~Crc THEN SubSeq(list, 1, 1) ELSE list

NameBlank == " "

FirstWord(s) ==
    LET blanks == {i \in DOMAIN s : s[i] = NameBlank}
    IN IF blanks = {} THEN s ELSE SubSeq(s, 1, Min(blanks) - 1)

(* The name a line is read to hold, <<>> when the line is rejected.        *)
(* md5sum wants a blank behind the mode, which a binary line has not.      *)
Md5Named(line) == IF line.form = "text" THEN line.name ELSE <<>>

(* "%s %c%s": the blank of the format skips both blanks of a text line, so *)
(* the mode takes the first letter of the name; "%s" ends at a blank.  A   *)
(* name of one letter leaves nothing to the last "%s".  With --tag the     *)
(* first "%s" takes the ")" the format wants next.                         *)
Sha1Named(line) ==
    CASE opts.tagged \/ line.form \in {"tag", "bad"} -> <<>>
      [] line.form = "text" ->
           LET rest == Tail(line.name)
           IN IF rest # <<>> /\ Head(rest) = NameBlank THEN FirstWord(Tail(rest)) ELSE FirstWord(rest)
      [] OTHER -> FirstWord(line.name)

(* crc32 takes the rest of the line behind the white space.                *)
CrcNamed(line) == line.name

Sha224Named(line) == Sha1Named(line)

Sha256Named(line) == Sha1Named(line)

Named(line) ==
    CASE Md5 -> Md5Named(line)
      [] Crc -> CrcNamed(line)
      [] applet = "sha1sum" -> Sha1Named(line)
      [] applet = "sha224sum" -> Sha224Named(line)
      [] applet = "sha256sum" -> Sha256Named(line)

Checking == mode = "check" /\ pc = "next" /\ at \in DOMAIN Found

(* On to the next line with this status.                                   *)
Skip(s) ==
    /\ exitStatus' = s
    /\ at' = at + 1
    /\ pc' = "next"
    /\ UNCHANGED <<name, ctx, offset, digest, list, failed>> /\ Unchanging

RejectLine ==
    /\ Checking /\ Named(Found[at]) = <<>>
    /\ Skip(IF opts.strict THEN 1 ELSE exitStatus)

Forgiving == opts.ignoreMissing /\ ~Crc

(* md5sum asks stat() first, so it forgives only a file that is missing;   *)
(* the others forgive every open() that fails.                             *)
MissingFile ==
    LET n == Named(Found[at])
    IN /\ Checking /\ n # <<>>
       /\ ~Openable(n)
       /\ Skip(IF Forgiving THEN exitStatus ELSE 1)

OpenFails ==
    /\ Checking /\ Named(Found[at]) # <<>> /\ Openable(Named(Found[at])) /\ ReadsFail
    /\ IF Md5 \/ ~Forgiving
         THEN GiveUp
         ELSE /\ failed' = failed \cup {at}
              /\ pc' = "next" /\ at' = at + 1
              /\ UNCHANGED <<name, ctx, offset, digest, list, exitStatus>> /\ Unchanging

OpenListed == Checking /\ Named(Found[at]) # <<>> /\ Start(Named(Found[at]))

\* Mutant of Compare: the status is that of the last line
Compare_LastWins ==
    /\ mode = "check" /\ pc = "hashed"
    /\ Skip(IF digest = Found[at].digest THEN 0 ELSE 1)

Compare ==
    /\ mode = "check" /\ pc = "hashed"
    /\ Skip(IF digest = Found[at].digest THEN exitStatus ELSE 1)

(* The list cannot be opened, or a read of it fails.                       *)
ListUnopened ==
    /\ mode = "check" /\ pc = "next" /\ at = 1 /\ ReadsFail
    /\ exitStatus' = IF Crc THEN -1 ELSE 1
    /\ listCut' = TRUE
    /\ Leave /\ UNCHANGED <<applet, opts, asked, files, mode, printed>>

(* md5sum never asks ferror(), for it this is the end of the list.         *)
ListUnread ==
    /\ mode = "check" /\ pc = "next" /\ ReadsFail
    /\ exitStatus' = IF Md5 THEN exitStatus ELSE IF Crc THEN -1 ELSE 1
    /\ listCut' = TRUE
    /\ Leave /\ UNCHANGED <<applet, opts, asked, files, mode, printed>>

CheckEnds ==
    /\ mode = "check" /\ pc = "next" /\ at > Len(Found)
    /\ Leave /\ UNCHANGED exitStatus /\ Unchanging

SumStopped == pc = "exit" /\ (mode = "check" \/ list = <<>>)

SumNext ==
    \/ OpenOperand \/ OperandFails \/ PrintLine \/ ComputeEnds
    \/ ReadChunk \/ Md5ReadFails \/ ShaReadFails \/ ReadEnds
    \/ Between
    \/ RejectLine \/ MissingFile \/ OpenFails \/ OpenListed \/ Compare
    \/ ListUnopened \/ ListUnread \/ CheckEnds
    \/ SumStopped /\ UNCHANGED sumVars

SumSpec == SumInit /\ [][SumNext]_sumVars

-----------------------------------------------------------------------------
Reference(m) == IF Crc THEN m ELSE Padded(m)

(* DigestIsReference: however the reads cut a file, its digest is that of  *)
(* the padded whole: no byte is lost, doubled or left from an earlier      *)
(* block, and the length behind the mark is that of the file.              *)
DigestIsReference == pc = "hashed" => digest = Reference(files[name])

(* ListTellsFiles: a list holds one true line for each operand that could  *)
(* be read, in their order; md5sum stops at the first that could not; and  *)
(* the status, but for crc32, is 0 just when there was none of those.      *)
LineOf(n) == [form |-> Form, name |-> n, digest |-> Reference(files[n])]

Listed(operands) ==
    \E read \in [DOMAIN list -> operands] :
        /\ \A j, k \in DOMAIN list : j < k => read[j] < read[k]
        /\ ToSet(read) = operands
        /\ \A k \in DOMAIN list : list[k] = LineOf(asked[read[k]])

ListTellsFiles ==
    mode = "compute" /\ pc = "exit" =>
        LET last == IF Md5 /\ failed # {} THEN Min(failed) - 1 ELSE Len(asked)
        IN /\ Listed(1..last \ failed)
           /\ (exitStatus = 0) = (Crc \/ failed = {})

(* CheckIsTrue: with --strict and without --ignore-missing the check of a  *)
(* list the applet can read back succeeds when the list and its files are  *)
(* as they were, and only then; a call that failed may spoil a success and *)
(* never makes one, but for md5sum when it cannot read the list.           *)
ReadsBack ==
    /\ Crc \/ (~opts.zero /\ ~opts.tagged)
    /\ IF Md5 \/ Crc THEN Form = "text"
       ELSE Form = "binary" /\ \A i \in DOMAIN printed.list : NameBlank \notin ToSet(printed.list[i].name)

AsBefore ==
    /\ list = printed.list
    /\ \A i \in DOMAIN list :
         /\ list[i].name \in DOMAIN files
         /\ files[list[i].name] = printed.files[list[i].name]

CheckIsTrue ==
    mode = "check" /\ pc = "exit" /\ ReadsBack /\ opts.strict /\ ~Forgiving =>
        /\ exitStatus = 0 /\ ~(Md5 /\ listCut) => AsBefore
        /\ AsBefore /\ failed = {} /\ ~listCut => exitStatus = 0

(* RoundTrip: an applet that finds a list and its files as it left them    *)
(* says so, whatever the mode in which it wrote the list ("mode is ' ' or  *)
(* '*'", sha1sum.c).                                                       *)
RoundTrip ==
    mode = "check" /\ pc = "exit" /\ AsBefore /\ failed = {} /\ ~listCut /\ ~opts.tagged
        => exitStatus = 0
=============================================================================
