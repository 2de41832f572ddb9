------------------------------ MODULE Streams -------------------------------
(***************************************************************************)
(* What is read and what is made of it: a behaviour is a run of dd, tee,   *)
(* cat or dos2unix, one of base64 and then one of base64 -d, one of a      *)
(* checksum applet and then one with -c, one call of execInPipe, a line    *)
(* that simpsh cuts into words, lines that are typed into it, a program    *)
(* that monicall traces, or a box of mconf on the terminal.                *)
(***************************************************************************)
EXTENDS Dd, Tee, Cat, Base64, Dos2unix, ExecInPipe, CommandLine, Monicall,
        Checksum, Boxes

CONSTANTS
    DdRuns,       \* [source, old, conv]
    TeeRuns,      \* [source, olds, appends, names]
    CatRuns,      \* [flags, operands]
    Base64Runs,   \* [source, wrap, garbage]
    DosRuns,      \* operands
    Outputs,      \* what a command that execInPipe runs writes
    Lines,        \* lines of simpsh
    Typed,        \* [keys, slow]
    Programs      \* [todo, listed]

(* What command lines, inputs and outputs are.  No output of tee is named  *)
(* twice: each open() of a file has a place of its own.                    *)
ASSUME DdRunsAssumption ==
    DdRuns \subseteq [source : Seq(Byte), old : Seq(Byte), conv : DdOptions]

ASSUME TeeRunsAssumption ==
    /\ TeeBuffer \in Nat \ {0}
    /\ \A r \in TeeRuns :
         /\ r.source \in Seq(Byte) /\ r.olds \in [DOMAIN r.olds -> Seq(Byte)]
         /\ r.appends \in BOOLEAN /\ "stdout" \notin DOMAIN r.olds
         /\ r.names \in Seq(DOMAIN r.olds) /\ IsInjective(r.names)

ASSUME Base64RunsAssumption ==
    Base64Runs \subseteq [source : Seq(Byte), wrap : Nat, garbage : BOOLEAN]

ASSUME CatRunsAssumption ==
    /\ CatBuffer \in Nat
    /\ CatRuns \subseteq [flags : SUBSET {"e", "t"},
                           operands : Seq([device : BOOLEAN, bytes : Seq(Byte)])]

ASSUME DosRunsAssumption == DosRuns \subseteq Seq(Seq(Byte))

ASSUME OutputsAssumption ==
    Outputs \subseteq Seq(Byte) /\ InitialBuf \in Nat \ {0} /\ PipeRoom \in Nat \ {0}

ASSUME ProgramsAssumption ==
    \A r \in Programs : r.todo \in Seq([kind : {"call", "exit", "signal"}, num : Int, ret : Int])

VARIABLE tool

boxVars == <<listVars, textVars, inputVars>>

vars == <<streamVars, ddVars, teeVars, catVars, base64Vars, dosVars, execVars, wordVars,
          lineVars, moniVars, sumVars, boxVars, tool>>

Sink(bytes) == [bytes |-> bytes, pos |-> 0]
Stdout == [stdout |-> Sink(<<>>)]

Idle(others) ==
    /\ "dd" \in others => LET r == CHOOSE r \in DdRuns : TRUE IN DdInit(r.conv, <<>>)
    /\ "tee" \in others => TeeInit(FALSE, <<>>)
    /\ "cat" \in others => CatInit({}, <<>>)
    /\ "base64" \in others => Base64Init(0, FALSE)
    /\ "dos2unix" \in others => DosInit(<<>>)
    /\ "execInPipe" \in others => ExecInit
    /\ "words" \in others => WordsInit(<<>>)
    /\ "readline" \in others => LineInit(<<>>, FALSE)
    /\ "monicall" \in others => MoniInit(<<>>, <<>>)
    /\ "checksum" \in others =>
         SumStart(CHOOSE a \in Applets : TRUE, CHOOSE o \in Options : TRUE, <<>>, <<>>)
    /\ "list" \in others => ListInit("off")
    /\ "text" \in others => TextInit(CHOOSE r \in TextRuns : TRUE)
    /\ "input" \in others => InputInit(<<>>, 0)

Tools == {"dd", "tee", "cat", "base64", "dos2unix", "execInPipe", "words", "readline", "monicall",
          "checksum", "list", "text", "input"}

InitDd ==
    /\ tool = "dd"
    /\ \E r \in DdRuns :
         /\ r.conv.pipeOut => r.old = <<>>
         /\ source = r.source /\ sinks = [out |-> Sink(r.old)]
         /\ DdInit(r.conv, r.old)

InitTee ==
    /\ tool = "tee"
    /\ \E r \in TeeRuns :
         /\ source = r.source
         /\ sinks = [s \in DOMAIN r.olds \cup {"stdout"} |->
                        Sink(IF s = "stdout" THEN <<>> ELSE r.olds[s])]
         /\ TeeInit(r.appends, r.names)

InitCat ==
    /\ tool = "cat"
    /\ source = <<>> /\ sinks = Stdout
    /\ \E r \in CatRuns : CatInit(r.flags, r.operands)

InitBase64 ==
    /\ tool = "base64"
    /\ sinks = Stdout
    /\ \E r \in Base64Runs : source = r.source /\ Base64Init(r.wrap, r.garbage)

InitDos2unix ==
    /\ tool = "dos2unix"
    /\ source = <<>> /\ sinks = Stdout
    /\ \E operands0 \in DosRuns : DosInit(operands0)

InitExecInPipe ==
    /\ tool = "execInPipe"
    /\ source \in Outputs /\ sinks = Stdout
    /\ ExecInit

InitShell ==
    /\ source = <<>> /\ sinks = Stdout
    /\ \/ tool = "words" /\ \E l \in Lines : WordsInit(l)
       \/ tool = "readline" /\ \E t \in Typed : LineInit(t.keys, t.slow)

InitMonicall ==
    /\ tool = "monicall"
    /\ source = <<>> /\ sinks = Stdout
    /\ \E r \in Programs : MoniInit(r.todo, r.listed)

InitChecksum ==
    /\ tool = "checksum"
    /\ source = <<>> /\ sinks = Stdout
    /\ SumInit

InitBox ==
    /\ source = <<>> /\ sinks = Stdout
    /\ \/ tool = "list" /\ \E kind \in {"menu", "check", "yesno"} : ListInit(kind)
       \/ tool = "text" /\ \E r \in TextRuns : TextInit(r)
       \/ tool = "input" /\ \E first \in FirstInputs, stale \in {0, MaxInput} :
                               InputInit(first, stale)

Init ==
    /\ taken = 0 /\ status = 0
    /\ \/ InitDd \/ InitTee \/ InitCat \/ InitBase64
       \/ InitDos2unix \/ InitExecInPipe \/ InitShell \/ InitMonicall
       \/ InitChecksum \/ InitBox
    /\ Idle(Tools \ {tool})

(* monicall, readline and a box may also end where what follows is         *)
(* undefined.                                                              *)
Stopped ==
    \/ "exit" \in {dpc, tpc, cpc, bpc, upc, wpc, gpc, mpc, boxPc, xpc, ipc}
    \/ "undefined" \in {gpc, mpc, ipc} \/ epc = "returned" \/ boxPc = "crashed"

Next ==
    \/ /\ tool = "dd" /\ DdNext
       /\ UNCHANGED <<teeVars, catVars, base64Vars, dosVars, execVars,
                      wordVars, lineVars, moniVars, sumVars, boxVars, tool>>
    \/ /\ tool = "tee" /\ TeeNext
       /\ UNCHANGED <<ddVars, catVars, base64Vars, dosVars, execVars,
                      wordVars, lineVars, moniVars, sumVars, boxVars, tool>>
    \/ /\ tool = "cat" /\ CatNext
       /\ UNCHANGED <<ddVars, teeVars, base64Vars, dosVars, execVars,
                      wordVars, lineVars, moniVars, sumVars, boxVars, tool>>
    \/ /\ tool = "base64" /\ Base64Next
       /\ UNCHANGED <<ddVars, teeVars, catVars, dosVars, execVars,
                      wordVars, lineVars, moniVars, sumVars, boxVars, tool>>
    \/ /\ tool = "dos2unix" /\ DosNext
       /\ UNCHANGED <<ddVars, teeVars, catVars, base64Vars, execVars,
                      wordVars, lineVars, moniVars, sumVars, boxVars, tool>>
    \/ /\ tool = "execInPipe" /\ ExecNext
       /\ UNCHANGED <<ddVars, teeVars, catVars, base64Vars, dosVars,
                      wordVars, lineVars, moniVars, sumVars, boxVars, tool>>
    \/ /\ tool = "words" /\ WordsNext
       /\ UNCHANGED <<streamVars, ddVars, teeVars, catVars, base64Vars,
                      dosVars, execVars, lineVars, moniVars, sumVars, boxVars, tool>>
    \/ /\ tool = "readline" /\ LineNext
       /\ UNCHANGED <<streamVars, ddVars, teeVars, catVars, base64Vars,
                      dosVars, execVars, wordVars, moniVars, sumVars, boxVars, tool>>
    \/ /\ tool = "monicall" /\ MoniNext
       /\ UNCHANGED <<streamVars, ddVars, teeVars, catVars, base64Vars,
                      dosVars, execVars, wordVars, lineVars, sumVars, boxVars, tool>>
    \/ /\ tool = "checksum" /\ SumNext
       /\ UNCHANGED <<streamVars, ddVars, teeVars, catVars, base64Vars, dosVars, execVars,
                      wordVars, lineVars, moniVars, boxVars, tool>>
    \/ /\ \/ tool = "list" /\ ListNext /\ UNCHANGED <<textVars, inputVars>>
          \/ tool = "text" /\ TextNext /\ UNCHANGED <<listVars, inputVars>>
          \/ tool = "input" /\ InputNext /\ UNCHANGED <<listVars, textVars>>
       /\ UNCHANGED <<streamVars, ddVars, teeVars, catVars, base64Vars, dosVars, execVars,
                      wordVars, lineVars, moniVars, sumVars, tool>>
    \/ Stopped /\ UNCHANGED vars

Spec == Init /\ [][Next]_vars

-----------------------------------------------------------------------------
(* OutputIsImage: at every step what a tool has put out is the image of    *)
(* what it has read: however reads and writes cut the bytes, none of them  *)
(* is lost, doubled or moved (DdImage, TeeImage, CatImage, Base64Image,    *)
(* DosImage, ExecImage); the words of a line are those its quotes delimit  *)
(* (WordsImage), a line is what its keys make (LineImage), and a trace has *)
(* the calls of the program in their order (MoniImage).  A box of mconf    *)
(* shows what the keys so far lead to: the rows around the item they       *)
(* choose, the part of the text, or the line they type (ListImage,         *)
(* TextImage, InputImage).                                                 *)
OutputIsImage ==
    /\ tool = "dd" => DdImage
    /\ tool = "tee" => TeeImage
    /\ tool = "cat" => CatImage
    /\ tool = "base64" => Base64Image
    /\ tool = "dos2unix" => DosImage
    /\ tool = "execInPipe" => ExecImage
    /\ tool = "words" => WordsImage
    /\ tool = "readline" => LineImage
    /\ tool = "monicall" => MoniImage
    /\ tool = "list" => ListImage
    /\ tool = "text" => TextImage
    /\ tool = "input" => InputImage

(* SuccessIsWhole: dd and base64 return 0, and execInPipe returns text,    *)
(* only when all they were to copy is in the output (DdDone, Base64Done,   *)
(* ExecDone); of base64 some of it may still be with stdio, which loses it *)
(* untold when the flush at exit fails.  tee, cat and dos2unix promise     *)
(* nothing by their status: it is 0 after a read that failed.              *)
SuccessIsWhole ==
    /\ tool = "dd" => DdDone
    /\ tool = "base64" => Base64Done
    /\ tool = "execInPipe" => ExecDone

(* MenuChangesSize: a menu shows what a key acts on when the terminal has  *)
(* changed its size as well ("menus change their size on the fly",         *)
(* menubox.c).                                                             *)
MenuChangesSize == tool = "list" /\ box = "menu" => RowsTrue /\ boxPc # "crashed"
=============================================================================
