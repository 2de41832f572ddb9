# Verification of Toolen

TLA+ models of Toolen, a multi-call binary of small Unix tools written in C,
with the TLC runs that check them and TLAPS proofs about all of them but those
of the `kconfig` language and the command line of simpsh. File and line
references are to the repository (`lib/xalloc.c:120`).

    tlc -workers 2 -config MCSimped.cfg MCSimped      # a run
    tlapm XallocProofs.tla                            # a module of proofs

`PROJECT.json` lists the components, the runs with their properties, a mutated
definition for each property (one that TLC must find to break it), the lines
each definition stands for, the findings, the hazards and the theorems.

## 1. The system

One executable, `toolen`, holds about sixty applets. `main()` looks up the name
it was called by, or its first argument, in a registry that is filled from a
linker section, and calls the applet. Applets share the wrappers of `lib/` for
memory and files, and otherwise do not know of each other, except that
`simpsh` executes applets as child processes.

| component | state it keeps | operations | what makes it hard | what makes it correct |
|---|---|---|---|---|
| `lib/xalloc` | list of allocated blocks, `__eexit` | xmalloc, xcalloc, xrealloc, xstrdup, xfree, cleanup at exit | cleanup runs twice; blocks move; bookkeeping may fail | nothing freed twice, nothing left, the list is what was handed out |
| `lib/xio` | list of open files and descriptors | xopen, xfopen, xclose, xfclose, cleanup | the same | the same |
| `main` | sorted list of applets, `initialized` | registration, lookup, dispatch | sorting happens in the middle of a lookup | a stable sort of the section; the named applet runs, no other |
| `simped` | doubly linked lines, cursor, window, `modified`, file status | each key, `:w` `:wq` `:q` `:q!` | long sequences of keys; a save that fails half way | one chain with the cursor on it; the keys do what they say; nothing saved is lost |
| `simpsh` pipelines | `pipefds`, pids | pipe, fork, dup2, close, exec, waitpid | processes interleave and share ends; each call may fail | right end of input and broken pipe, no descriptor or child left, the shell comes back |
| `simpsh` lists | stream, line, environment | reading, cutting at `;`, executing | the offset of the script is shared with children | once, in order, and nothing dropped |
| `mv` | the file tree, options, answers | destination, update, prompt, backup, rename, copy and remove | two devices, links, a call that fails in the middle | no content is lost, what is not named is not touched |
| `rm` | the file tree, answers, `ret` | prompt, descend, remove | inner statuses are dropped | what is refused stays, status 0 means gone |
| `mkdir`, `truncate`, `mkfifo`, `link`, `unlink` | the file tree, `retVal` | one system call per operand or per part of a path | a failure in the middle of several operands | status 0 means that what was named is there, or gone |
| digests, `crc32` | context, list, `exit_status` | init, update, final, list, check | ends of blocks, reads of any size, several files of which one fails | digest of the padded whole; a check succeeds only if nothing changed |
| `base64` | group of bytes, column, number of `=` | encode, decode | last group, line breaks, damaged text | decoding gives the bytes back or fails |
| `dd` | block, offsets, counts | open, seek, read, write, conversions | short reads and writes, sparse blocks, pipes | the output is the image of what was read |
| `tee`, `cat` | descriptors, buffer | open, read, write | one of several outputs fails; devices | each output is the image of the input |
| `dos2unix` | operand, character | read, write | a CR that ends a read | the lines with their ends converted |
| `lib/execInPipe` | buffer, child | fork, exec, read, wait | output that just fills the buffer | all of the output, and no child left |
| `lib/cmdParse`, `remove_comments` | quotes, escape, token | a pass over a string | four passes over one line | all passes agree on what is quoted |
| `lib/readline`, `lib/getch` | line, cursor, history, terminal mode | keys | escape sequences cut by timeouts and flushes | the line is what the keys make of it |
| `monicall` | traced child, catchers | ptrace loop | stops of other kinds | entries and exits stay paired |
| `kconfig` expressions | trees, rewritten in place | value, simplify, compare, extract | dozens of cases on pairs of terms, on trees that share nodes | what is simplified means the same |
| `kconfig` menus | menu tree, properties of symbols | blocks of a file, `menu_finalize`, circle check | entries are moved while the tree is walked | no entry is lost or hidden, every circle is told |
| `kconfig` symbols | cached values, what the user has set | compute, set, clear | values computed from values, all cached; a choice | nothing stale, one member of a choice |
| `kconfig` files | `.config` and its copies, `auto.conf`, markers | read, write line by line, rename | killed or failing between two renames | what is saved is read back, a configuration survives |
| `mconf`, `conf` | open menus; the pass over the questions | keys; answers and the modes that ask nothing | each answer changes what is visible | the next key sees values as they are, the questions end |
| boxes of `mconf` (`lxdialog`) | rows on the screen, scroll, highlight, button; place in a text; line | keys, a new size of the terminal | only the rows that change are printed; what one call saves the next uses on another list | what is shown is what a key acts on |
| `switch_root` | mounts | move, pivot, exec | failure half way | *(not modelled)* |
| other tools | none beyond one pass | a few system calls each | | *(not modelled; section 7)* |

`make menuconfig` builds and runs `kconfig/mconf`, the Makefile reads the
`.config` it saves; `kconfig/conf` is the same configurator without a screen,
there to be built but called by no rule.

How they meet: applets call xalloc and xio, which end the process when a call
fails, so that "the wrapper returned" means "it worked"; xio's cleanup runs in
children of `simpsh` too, and closes a stream whose offset the parent shares;
`mv` and `rm` meet in the file tree; `base64` is read by `base64 -d`, and the
list of a digest applet by the same applet with `-c`;
what `mconf` saves, `conf` or the next `mconf` reads.

## 2. The modules

    TrackedHeap  <=  Xalloc                        XallocProofs
                     ModuleRegistry                ModuleRegistryProofs
    TextBuffer   <=  Simped                        SimpedProofs
    StagedFlow   <=  SimpshPipeline                SimpshPipelineProofs
                     SimpshScript                  SimpshScriptProofs
    FileTree  <-  Mv, Rm, Makers  <-  FileTools    FileToolsProofs
    BlockDigest  <-  Checksum                      ChecksumProofs
    ByteStream  <-  Dd, Tee, Cat, Base64, Dos2unix, ExecInPipe  <-  Streams    StreamsProofs
                     CommandLine, Monicall                 <-  Streams
                     Checksum, Boxes                       <-  Streams
    KExpr  <-  KMenuTree  <-  KMenus, KSymbols  <-  KConfig

`<=` is "is implemented by" (a refinement the run checks), `<-` is EXTENDS.
`MC*` modules give the constants their values.

**Xalloc** models every wrapper of `lib/xalloc.c`. `heap` is what malloc gave
and free did not get back, `mem_list` the pointers of the list from its head,
`handed` a history of the blocks the applets answer for. A failed allocation
is an action of its own, as is a node that cannot be allocated (line 29). An
exit is a phase: `cleanup_all()` frees one block per step, for a failed
allocation twice, the second time as the handler registered at line 177.
Blocks from elsewhere (`asprintf`, `strdup`) may be passed to `xfree` and
`xrealloc`. **TrackedHeap** is the promise: a set of live blocks, an owner for
some, all of them released exactly once.

**ModuleRegistry** models `main/module.c` and `main()`. One action copies one
entry and inserts it; `entered` keeps which function began the registration.
In this tree all priorities are 0 and the names differ; the model takes any
priorities, since the macro offers them, and assumes the names differ.

**Simped** models `devel/simped.c`: nodes with `next` and `prev`, `x`, `y`,
`scroll_offset`, `line_count`, `modified` and `fileStat` as in the struct
`EditorState`. An action is one key with the scrolling behind it; a `:`
command is one action. `saved` is a history of the file's content at the last
save. Contents are read up to a NUL as `strlen()` does (line 220).
**TextBuffer** is a sequence of lines with a cursor.

**SimpshPipeline** models lines 194-275 of `devel/simpsh.c`. The shell and each
child have a program counter, and every `pipe`, `fork`, `dup2`, `close`,
`execvp`, `waitpid` is a step. Pipes count items; a command is a filter, a
source, an endless writer or one that stops after an item. **StagedFlow** is
what a user expects, with no descriptors in it: a stage meets the end of its
input when its left neighbour is over and the channel is empty.

**SimpshScript** models the loop around it: where a line comes from, what of a
list is executed, the temporary variable, and the end. The open script has an
offset that is shared with children, and a stream with what was buffered.

**FileTree** is external: paths, files, directories, links, two devices, and
the calls `mv` and `rm` make. A name is a base and the marks put behind it, so
that a backup of a backup has a name of its own. `IsTree` says what a tree is:
what is above a path is a directory, and no link leads to another, above it or
below it. **Mv** has one step per call that changes the
tree, with the recursion of `copy_dir` and `remove_dir` as a stack of frames;
**Rm** likewise. **Makers** has the tools of one call per operand; `mkdir -p` is
one step per part of the path. **FileTools** runs any of them. Since a kill may come
between any two steps, what holds in every state holds after a kill. Of a move
`prior` is the tree before it: the properties compare `tree` with that. A link
below the source or the destination that leads into one of the two, or where
another leads, makes mv meet one file as two, and it may then write over its own
copy (section 6); `Tangled` is this case, which `NothingLost` and
`MovedWhole` except.

**BlockDigest** has the three ways in which the digests buffer their input
(`md5sum.c`, `sha1sum.c`, and `sha224sum.c` with `sha256sum.c`), and as
reference the padding of RFC 1321 and FIPS 180. A digest is the bytes that were
compressed, in their order. **Checksum** prints a list, lets a file or the list
change, and checks it.

**ByteStream** is external: an input, outputs with positions. **Dd**, **Tee**,
**Cat** and **Base64** are each the loop of the tool with short and failing
calls. Base64 works on the numbers of bytes; `held` is what stdio has of the
decoder's output and has not written, or could not. **Dos2unix** goes character
by character, as the code does. **ExecInPipe** has the child as a process of its
own behind a pipe that can be full.

**CommandLine** has a line of `simpsh` in two halves. The first has the bytes of
keys in the terminal, `getch()` as a step per byte with its timeout and the
flushes around it, and `xreadline()` as one step per key; its reference `Edited`
is a line split at the cursor. The second takes a line through `remove_comments`
and the three passes of `parse_command` (at `;`, at `|`, at blanks), each a fold
of one operator per character; its reference, `WordsOf`, reads the quotes of the
line once.
**Monicall** has the traced process as a sequence of calls and signals, and the
loop of `startMonit()` as a step per stop.

**Boxes** has the boxes of `lxdialog`: the menu, the list of a choice, the
question, a text and a line.
`rows` is what the terminal shows after scrolling and printing single rows, as
the code does; `choice`, `scroll`, `first_item` and `button` are its
variables, `savedScroll` and `active` those of the loops in `mconf.c` that call
the box again, with any other list. `place` is a history: where the keys
lead in a list that has no window. Then there is the box that shows a text
and the one for a line. A text is its number of lines; `page` is where
`get_line()` reads on, `begin_reached`, `end_reached` and `page_length` are the
code's. The line is kept byte by byte with what an earlier box left behind its
NUL (`dialog_input_result` is used by all). Each key is one step, and so is a
new size of the terminal, which draws the box again.

**Streams** runs one of the thirteen tools and boxes: what they share is that
something is read and an image of it is made. They do not interact; one run
instead of many keeps the constants and the invariants of a tool at one place,
`tool` says which one it is.

**KExpr** has the expressions of `kconfig/expr.c` as values. The code rewrites
two trees through pointers to pointers, which may point into the same tree;
`Meet` is that traversal, with the paths of two places of one tree, and its
tasks are the four functions that traverse so. `Value` is the meaning.

**KMenuTree** has the menu tree and the calls that build it (`menu.c`),
`menu_finalize` in the order of the code, and the search for circles of
`symbol.c`. **KMenus** is the parser's side: an action for each kind of block
of a Kconfig file (the actions of the grammar in `zconf.tab.c_shipped`), and
`EndOfFiles`, which finalizes and checks. It keeps the tree as it was parsed
beside the finalized one, and states what the files mean by
`kconfig-language.txt` on the first: the properties compare the two.

**KSymbols** has `symbol.c`: the memory of a configurator is a record, and
`sym_calc_value`, which computes and caches in passing, is an operator from a
memory to a memory. Where the code returns a value and changes the caches, the
operator returns both (`[mem, val]`).

**KConfig** runs sessions over one tree. `mconf` has a step per key (`Show`
makes the list of the open menu anew, as the loop of `conf()` in `mconf.c`
does before it reads a key); `conf` has the recursion of `conf()`,
`check_conf()` and `conf_choice()` as a list of tasks, a step per task or
question; `conf_write` and `conf_write_autoconf` have a step per call that
changes the disk, and a marker per step. A session ends or is killed between
two steps of writing, and another begins with the files it left. A write may be
cut: the file then holds the first lines only, and the code goes on, since it
looks at no result. `ours` and `touched` are histories of what was written and
marked, `past` of the last complete configuration and of what has gone wrong
since; `session.input` says whether a user answers or the input has ended;
`mem.dropped` tells
that the user's settings were changed without forgetting the values computed
from them (section 6).

## 3. The runs

| run | configuration | shows |
|---|---|---|
| `xalloc` | `Xalloc.cfg` | all sequences of wrapper calls and failures on four addresses |
| `module_registry` | `MCModuleRegistry.cfg` | four entries, 84 command lines |
| `simped` | `MCSimped.cfg` | every sequence of keys, new and existing files, failing saves |
| `simpsh_pipeline` | `MCSimpshPipeline.cfg` | three stages, five pipelines, every call may fail |
| `simpsh_script` | `MCSimpshScript.cfg` | 3307 scripts, file or standard input, terminal or not |
| `file_tools` | `MCFileTools.cfg` | mv, rm, mkdir, truncate, mkfifo, link and unlink with their options on small trees |
| `streams` | `MCStreams.cfg` | dd, tee, cat, dos2unix, base64 and back; execInPipe; 3000 lines cut into words; keys; traced programs; lists of five digest applets in three forms, with damage in between; the boxes of mconf |
| `kconfig` | `MCKConfig.cfg` | files of up to three blocks of every kind parsed and finalized; sessions of mconf and conf, in every mode, over five trees, one of them with two types of choice; writes that are cut, input that has ended |
| `simped_failed_save` | `MCSimpedModified.cfg` | *violated*: `modified` is clear though the file is torn |
| `simpsh_list_dropped` | `MCSimpshScriptLists.cfg` | *violated*: the rest of a list behind `cd x;` or `a \| b;` |
| `menu_new_size` | `MCStreamsResize.cfg` | *violated*: a menu drawn again in another size shows other rows than a key acts on, or ends mconf |
| `checksum_text_list` | `MCStreamsTextList.cfg` | *violated*: `sha1sum f > l; sha1sum -c l` refuses its own list |

Every property says in a comment over it what it means. Those that carry most:

* `ListIsHanded`, `NoBadFree`, `NoLeakAtExit`, `ExitEnds`: ownership in xalloc;
* `RegistryOrdered` holds in the middle of a registration too, and
  `RegistryComplete` says no lookup sees a part of it;
* `ListWellFormed`, `CursorVisible`, `UnmodifiedIsOnDisk`, `QuitLosesNothing`;
* `OwnEndsOnly`: a command is executed with its own two ends and no other;
  `NothingLeftBehind`: no descriptor and no child remains; `ComesBack`;
* `RanAsWritten` (each command at most once and in order, and what is set for
  one stays with it), `NothingSkipped`, `FileEnds`;
* `NothingLost`, `MovedWhole`, `OnlyNamed`, `StatusIsTrue` for the file tools;
* `DigestIsReference`, `ListTellsFiles`, `CheckIsTrue`;
* `OutputIsImage` with a part for each tool and box, `SuccessIsWhole`;
* `VisibleAsWritten`, `NothingHidden`, `CirclesTold`: for every file that was
  parsed and every value of its symbols, the finalized tree against the tree as
  written; these quantify over the values instead of running a session;
* `CachesAreFresh` and `OneMember`: what is cached between two keys, against a
  computation from nothing; `SavedIsRead`: each file that was saved, read into
  an empty memory and into the one of the moment, and written again, is the same;
* `ConfigSurvives`: the last complete configuration is there after one write that
  was cut, one rename that failed or one kill between the renames; nobody is told
  of a cut write or of a first rename that failed, and a second failure may lose it;
* `AutoconfIsLast`: `auto.conf` comes after the markers and, unless a write was
  cut, after a header that says the same; `QuestionsEnd`: conf stops asking but
  in two loops, both of which the run's trees have (section 6).

The types of Simped, SimpshScript and Checksum are parts of the invariants that
are proved of them; those of Xalloc, ModuleRegistry and SimpshPipeline are
theorems of their own.

Where the code does less than a property would say, the property excepts that
case by name, and its comment and section 6 say which.

### Bounds

| bound | value | why it is enough |
|---|---|---|
| `Ptr` | 4 addresses | a list of three has a head, a middle and an end; one more to move to |
| `Section` | 4 entries, 2 priorities | insertion at the head, between equals, at the end |
| `Argvs` | up to 3 words | `main()` looks at no word beyond the second, but for `--version` |
| `MaxNode`, `MaxChars`, `SizeY` | 3, 2, 3 | a line with neighbours on both sides; the window (two rows) scrolls both ways |
| `N`, `Cap`, `Items` | 3, 1, 2 | a first, an inner and a last stage; pipes that are full and empty |
| `Scripts` | 2 lines of 2 commands | a command before and one behind each kind, in the same line and the next |
| `BackupLimit` | 2 for the code's 1000 | the limit is reached and passed |
| `Trees` | up to 9 paths, depth 3 | a directory in a directory, a link, the same names on both devices |
| `Block`, `LenBytes`, `Word` | 4, 2, 32 for 64, 8, 2^32 | lengths 0 to 9 end at each place of a block, and MD5's low word wraps twice; `DigestAssumption` keeps the ratio the code relies on |
| `Chunk`, `TeeBuffer`, `CatBuffer` | 8, 3, 3 for 4096 or 8192 | files longer and shorter than a buffer, and every shorter read |
| `InitialBuf`, `PipeRoom` | 2, 2 for 1024 and 65536 | outputs of 0, 2 and 7 bytes: the buffer is doubled twice, the pipe is full and empty |
| `Lines`, `WordMax` | up to 6 characters, 5 for 2047 | all lines of three of the eight characters that matter, of five with blanks and one kind of special ones; a line longer than a token |
| `InitialSize`, `MaxHistory` | 3, 2 for 1024 and 100 | lines that grow out of the buffer, a history that drops its first line, keys of every branch of `getch()` |
| `MenuLists`, `MenuRooms`, `CheckLists`, `CheckRoom` | lists of 2, 5 and 7 items; 0, 1, 2, 3 and 5 rows; 2 and 6 items in 3 rows for 6 | lists shorter and longer than the window, by one and by more, which change between two calls; windows in which the highlight meets both ends at once; two items with one hot key, a hot key that is also a command |
| `TextRuns`, `TextRooms`, `MaxScroll` | 1 to 7 lines; 1, 2, 4 rows; 2 for 2048 | texts that fill the box, just, not, and several times |
| `FieldWidth`, `MaxInput`, `FirstInputs` | 2, 5 for 2048; empty, two letters, five | lines shorter than the field, as long, and scrolled twice; the line full |
| `Programs` | up to three calls or signals and the last call | a call with and without a catcher, twice, and a signal at each place |
| `Parses` | three blocks of eight kinds, two symbols, few conditions; two blocks and 78 conditions | an entry before and one around another; every pair of the six simple tests of a bool and a tristate under "and" and "or", which are the cases of the simplifier |
| `Cuts` | a file of n lines is cut to n - 1 | what is read back differs; a file is cut between two lines, never within one |
| `slips` | counted up to 2 | the property speaks of none and of one |
| `Sessions` | thirteen, with up to three keys that set something | a tristate and what it selects; a choice of two members, one hidden without modules, with an entry below; a number with a range and what follows it; two entries without a value below a member, and a number without a default, for QuestionsEnd; each with no file, a file, `defconfig`, or files of an earlier run; the hash table in both orders; two tools after one another, the second after an end or a kill |
| `ibs`, `obs`, `count` | 1 to 3, 0 to 5 | blocks that are multiples of each other and not, full and partial |

Deadlock is checked where the program is not meant to stop; where it does
(`Xalloc`, `ModuleRegistry`, `Simped`) the configuration switches it off, and
the others have a stuttering step in their final states.

### Fairness

* `Xalloc!FairSpec`: weak fairness of the steps of the cleanup only. It is a
  loop in one thread; whether an applet ever exits is left open.
* `SimpshPipeline!FairSpec`: weak fairness of the shell and of each child, as
  the kernel schedules runnable processes. A process blocked on a pipe is not
  enabled. `ComesBack` is therefore about closed ends, not about scheduling.
* `SimpshScript!FairSpec`: weak fairness of the whole step: the loop never
  waits for anything but a line. `FileEnds` is claimed for a script in a file;
  for standard input it would be false (section 6).
* `KConfig!FairQuestion`: weak fairness of `Question`, for `QuestionsEnd`: conf
  computes without waiting, and who is asked answers in the end. No key of
  mconf and no kill is owed. It is written out (not asking, or asking what has
  no answer, infinitely often, or infinitely many steps while asking) since TLC
  evaluates ENABLED of these long computations too slowly; the two are the same
  because `Question` is enabled whenever conf asks, or the run would report a
  deadlock, and only the step of a `Hopeless` question changes nothing.

## 4. What is proved

TLAPS checks the theorems for all values of the constants: 37 theorems, which
state 28 of the properties that the runs check on their small instances, and
the lemmas they rest on. None is an axiom; what is assumed is named in the
modules and evaluated by TLC on every run:

| module | assumption | why the code justifies it |
|---|---|---|
| Xalloc | none | |
| ModuleRegistry | `SectionAssumption`, `ArgvAssumption` | a finite section whose names differ; `argv[0]` is there |
| SimpshPipeline | `StagesAssumption`, `CapAssumption`, `ItemsAssumption`, `ProgramsAssumption` | a pipeline has two stages or more; a pipe holds something |
| Simped | `SizeAssumption`, `TabAssumption`, `NodeAssumption`, `ContentsAssumption` | two rows, of which the status bar takes one; a tab is typed as printable characters; a line fits in memory; a file is a sequence of bytes |
| SimpshScript | `ScriptsAssumption`, `ModesAssumption` | a script is a sequence of lines, a mode answers three questions |
| FileTools | `TreesAssumption`, `MvCommandsAssumption`, `RmCommandsAssumption`, `MakerCommandsAssumption`, `BackupLimitAssumption` | the trees are trees (`IsTree`) and the operands paths; `link` refuses other than two operands (`link.c:25-36`); the limit of numbered backups is 1000 |
| Streams | `DdRunsAssumption`, `TeeRunsAssumption`, `CatRunsAssumption`, `Base64RunsAssumption`, `DosRunsAssumption`, `OutputsAssumption`, `ProgramsAssumption` | inputs and outputs are sequences of bytes; dd refuses a block size of 0 and what is below 0 (`dd.c:256-265`); a buffer and a pipe hold something; tee is given no name twice, since each name is one place in a file; a program is a sequence of calls, signals and its end |
| Boxes | `ListsAssumption`, `TextsAssumption`, `InputsAssumption` | `conf()` leaves a menu without an item before it is shown (`mconf.c:597`), a choice without a visible member is left out of the model; a text that ends with a newline has an empty line behind it; a box of a text has a row (one of a terminal of eight rows has none and is left out); the line an input box starts with fits in `dialog_input_result` (`strcpy()` does not look) and has no NUL |
| Checksum | `DigestAssumption`, `ChecksumAssumption`, `OperandsAssumption`, `FoldersAssumption` | the length field is shorter than a block and a word counts whole blocks of bits, as 8, 64 and 2^32; the buffer of a read holds something; operands, files and bytes are what their names say |

**XallocProofs**: `TypeCorrect`, `NeverBadFree`, `ListExact`, `NoLeak`,
`Refinement` (of TrackedHeap), for any set of addresses. The invariants are
not inductive alone: that `xfree` is safe needs that every block on the list is
live and there once, and that the second cleanup is safe needs to know where
the first one stopped. `IInv` says both: the list being walked (`Answered`:
`mem_list` while running, `curr` in a cleanup) is without repetition and its
elements are `handed`, all of it in `heap`. The lemmas
`ConsElems`, `UnlinkElems`, `ReplaceElems` and `TailElems` say what the four
list operations do to the set of elements.

**ModuleRegistryProofs**: `StableSort`, `CompleteWhenRead`, `TypeCorrect`,
`RunsNamed`, `FoundIsRun`, `LinkWins`, for any section and command lines. The
invariant is that the list holds exactly the entries before `scan`, ordered by
priority and then by index, and all of them once a lookup reads it (`RegInv`),
and for each place in `main()` what the lookups before it have found, and that
nothing ran in front of the matching entry (`RunInv`). `InsertPosition` shows that the
place of `insert_sorted()` exists, `InsertOrdered` that the order survives.

**SimpshPipelineProofs**: `Invariance`, `TypeCorrect`, `OwnEnds`,
`CleanPrompt`, `Refinement` (of StagedFlow), for any number of stages, any
capacity, any commands, with every call failing or not. The invariant gives the
exact set of ends that each process holds at each point of its program, as a
function of its loop counter. From it follows `NobodyHolds`: an end that nobody
holds belongs to a stage that is over, which turns "read returned 0" into "the
left neighbour is over" in the refinement.

**SimpshScriptProofs**: `InnerInside`, `ListsAreWhole` and `ScriptRunsAsWritten`,
for scripts of any length. The shell keeps its position in three places, the
offset of the open file, the buffer of its stream and the current line;
`Position` says how they agree: what is buffered is the tail of the script
right behind the line that is executed. `Complete` adds that of the lines up to
there nothing that a list reaches is left out but what is still to come, and
`Ordered` that nothing ran that is ahead. `IInv` (type, `Position`, `Inner`,
`Complete`) is inductive whatever `fclose()` does; `Ordered` is kept only when a
child that exits leaves the offset alone. So `NothingSkipped` is proved without
a condition, and `RanAsWritten` from `~CloseSeeks` (section 5).

**SimpedProofs**: `ListStaysWellFormed`, `CursorStaysVisible`,
`RefinesTextBuffer`, `ModifiedIsTrue`, `NothingLostAtQuit`, for any file, any
keys, any window and number of lines. `ListWellFormed` follows pointers and is
not inductive as it stands. The invariant speaks of a sequence of nodes instead:
each node in it once, `next` leading from each to the following, `prev` back.
`ListIsChain` says it is the only one that starts at the head; `ListInsert` and
`ListRemove` say that the code that splits and merges lines inserts an element
and takes one out. `LinesSteps` and `BytesSteps` relate a list and the bytes of
a file to their first part and one more element, and `RoundTrip` shows that what
is saved is loaded again. Induction is done over sets of naturals (`LeastNat`,
`SetInduction`, `Recursion`). The refinement then has a lemma per kind of key
(`InsertStep`, `DeleteStep`, `MergeStep`, `SplitStep`, `MoveStep`). `DiskInv`
adds what is on the disk, for the two ways to quit.

**FileToolsProofs**: `RmAndMakersTellTheTruth`, `PlainMovesLoseNothing`,
`PlainMovesMoveAll`, `OnlyTheNamedChange` and `WithoutLinksAllHold`, for every
tree, command line and answer, with every call failing or not. None of the
four properties is inductive: each compares the tree with the one at the start,
and a step in the middle of a recursion keeps that only if the stack of calls is known.

`RmInv`: the calls of `remove_directory` are a chain of directories that are
there, each deeper than the one around it; the entries a call has still to see
are there too, and the path being asked about is none of them. What has gone was at or
below an operand and was not refused. Of each operand passed, `Seen` says that
it has gone, was refused or lies below what was, or that a failure is told. The status
is true although the inner ones are dropped because the tree only
shrinks: what is left keeps the directory of the operand from going, which is told.

`MkInv`: what the tree has more or less than before is accounted for by the
operands passed so far.

`MvInv` speaks of one move by its phase (`MoveState`). Before `rename` only the
backup has been made. While a copy runs, the source is what it was, and each file
of it is copied, or is the one being written, or is at or below an entry that a
call of `copy_dir` has yet to come to; so when the stack is empty all are
copied. While the source is removed, the copy is whole and what is left of the
source is as it was. A move may be killed or fail anywhere: the phase says where each content is then.

The moves are taken to be plain (`PlainMove`): no link at or below the source,
the destination, or the backup if one is made. Links may be anywhere else, and the
operands may lead through them. Where there is such a link, mv follows it when
it copies and when it removes (`mv.c:233`), so the copy is not an image of the
source's paths and the argument above has no counterpart; TLC checks those cases.
On trees without links, which stay without, all moves are plain
(`WithoutLinksAllHold`), those of several sources one after another too. The other
theorems hold of rm and the makers without any condition.

**ChecksumProofs**: `DigestsAreTrue`, `ListsAreTrue`, `ChecksAreTrue`, for blocks
of any size, files of any length and reads of any size. They are theorems of
`SumSpec`, which are the behaviours of Streams in which a digest applet runs. A
context `Holds` a message when what was compressed and what waits in the buffer
are that message and the count is its length modulo two words; `Update` keeps
this for both ways of counting, with the carry, and `Sha1FinalIs` and
`Md5FinalIs` show that the last call then gives the padded message. `Hashing`
says that the context holds what was read of the file so far, which makes
digests true. `Telling` says that what was printed is one true line for each
operand so far, which makes lists true. `Verdict` says what a status of 0
stands for while a list is checked; there equal digests have to mean equal files,
which is `PaddedInjective`: no two messages have the same padding, not even
when the count has wrapped, since two messages that fill as many blocks differ
by less than a block in length and the length field tells them apart.

**StreamsProofs**: `SuccessWhole` (all of `SuccessIsWhole`; of base64 it says that
what a status of 0 leaves out of the output is what stdio held when
`ferror(stdout)` was read and the flush at exit could not write) and `OutputsTrue`
(`OutputIsImage` for every tool but the two of simpsh), for inputs of any length,
buffers, blocks and pipes of any size, and calls that are short or fail anywhere;
for any traced program; and for lists, texts and lines of any length in windows
of any size, whatever keys are pressed. Each tool has an invariant, and
`OnlyItself` says that a step of Streams is one of the tool that runs.

* dd: `DdShows` says byte by byte what is in the output when any number of
  blocks have been read and a part of the last is still to be written; `DdCounts`
  how far `count=` has come.
* tee: `TeeInv` says for each output how much it holds when some have their turn
  behind them.
* base64: `Spelled` says that a text is the first characters of `Codes(message)`
  but for blanks, by a function that counts the characters up to each place;
  `SpelledGroup` that a group more keeps this wherever the lines break, `Inserted`
  and `Removed` what damage does to it, and `DecodedIs` that four characters give
  back the one to three bytes they were made of. A text that lost a character has
  four times some number less one, so that the buffer cannot be empty at its end.
  What was put out and what stdio holds are together what was decoded (`Flushes`);
  a text torn off by the encoder's own flush is its first characters (`FrontOf`).
* cat, dos2unix, monicall: what was put out is the image of what was read,
  element by element. `FlatImage` and `FlatImages` say that the image of a sequence
  that gets longer is its image and that of the rest; `ShownLinesAre` that a part of a file
  marked line by line is the file marked byte by byte; `UnixMore` what a character more does to
  the new text, with a carriage return that is held back (`DosPut`). What monicall
  printed is the image of the part of the program that is behind it
  (`RestGoesOn`).
* lists of mconf: `MovedRows` shows that a window that is moved row by row is the one
  that would be drawn, which needs that a window shorter than its
  rows never moves; `PlaceIs` that the scroll for an active item shows it in a
  full window, whatever the list was when the scroll was saved. Of a list that was
  drawn again in another size only the bounds are claimed, and proved: what it
  shows is the third finding of section 5.
* texts: `TextAt` gives `page`, `end_reached` and `page_length` as functions of
  the line the keys lead to; `LinesBack` is what `back_lines()` does to them.
  A text without a newline at its end is only model-checked for its control: `TextImage`
  does not speak of it.
* lines: `FieldIs` adds to `InputImage` that what a scrolled field has beyond the
  line is NUL. That is what keeps the bytes an earlier box left from coming
  into sight when an empty field is filled again.

`FlattenSeq` and the running sums of dd are recursive functions. What they
compute is proved by `Induction`: a set of naturals that has 0, and with a
number the next, has all, since those it has not would have a least one
(`WFMin` of the library).

Only model-checked:

* liveness (`ExitEnds`, `ComesBack`, `FileEnds`, `QuestionsEnd`), because
  fairness and ENABLED are outside the prover;
* the modules of kconfig: they compute with RECURSIVE operators over trees,
  which the prover cannot use. The control of `KConfig` (the files, the passes)
  could be proved after a split;
* of FileTools the moves of mv with a link at or below the source, the
  destination or the backup;
* of Streams the words of a line and the line that is typed into simpsh: they
  are folds over their input, whose reference is another recursive definition,
  so that the proof is an induction over data.

## 5. Findings

The four violation runs above, each with the line of the repository it
contradicts, are in `PROJECT.json`. Three are code bugs (`modified` after a
failed save; a list in text mode that is not read back; a menu in a terminal
that has changed its size), one is a divergence from a comment (lists behind a
built-in).

`SimpshScript` has a constant `CloseSeeks`. A child whose `execvp` fails leaves
by `exit()` (`devel/simpsh.c:367`), which closes its copy of the script's
stream. Where `fclose()` moves the file's offset back over what it had
buffered, as in musl and bionic, the shell then reads those lines again:
with `CloseSeeks = TRUE`, `OnceInOrder`, a part of `RanAsWritten`, fails. The run uses `FALSE` (glibc).

## 6. Where the code does less than one would think

Seen while modelling; the models follow the code.

*simped*: a line is cut at a NUL when loaded and so when saved (220); `:q!`
closes the descriptor twice (437); the status bar covers the last row (337); the
current line's `prev` is read after the line was freed (497); a new file that
`:w` has saved is deleted by `:q` as one that was never saved.

*simpsh*: with standard input not a terminal the script ends after its first
external command (390); at the end of standard input the loop turns for ever
(176); `A=x cmd` unsets `A` rather than restoring it, and leaves it set when
`fork` fails (372); after a failed `pipe()` freed tables are used (214).

*mv*: `-n` has no effect (273), `--exchange` only swaps the arguments (404), `-v`
is no option (366); what was typed behind the first two bytes answers the next
question (155); at the limit of numbered backups one is overwritten (135);
`mv -b a~ a` replaces its own source; removal after a copy follows links to
directories (233), so that a link from the source into the destination has the
copy removed as well, and one from the destination into the source has it
written over; a directory whose `mkdir` fails is lost if it holds no file
(204).

*rm*: a refusal of a directory given on the command line is ignored (187); with
`-f` a failure does not show in the status (192); three bytes of
an answer are read and the rest answers the next question (45).

*digests*: lists with `--tag` or names with blanks are not read back
(`sha1sum.c:535`), nor lists of md5sum in binary mode, silently so without
`--strict`; of a list with `-z` the first entry is checked; md5sum does not
notice that a list cannot be read to its end (354); crc32 returns 0 when files
could not be read (118).

*base64*: `=` is accepted in any place (158); `ferror(stdout)` is read before
the last of the output is flushed (107, 190), so that a disk full at exit loses
it with status 0, encoding and decoding; `SuccessIsWhole` excepts just that.
*dd*: `conv=noerror` repeats a failing read for ever (389); `count=0` copies all;
`count` counts short reads; `skip=` on a pipe fails after the output was
truncated (360); a hole at the end shortens the output (417). *tee*: the status
is always 0 and short writes are dropped (83). *cat*: results of writes are not
looked at; with `-t` a device is shown as its reads cut it (61).

*mkdir*: the argument of `-m` is taken for a directory to make as well (145),
and `-p` never tells a failure (148). *unlink*, *link* look at no further
operands. *mkfifo* stops at the first failure. *dos2unix*: the second of two CR
is left as it is (41), a read that fails looks like the end, and no write is
looked at (39-48), with status 0; `DosImage` excepts an output that lost bytes so.

*execInPipe*: where a call fails the child is not waited for (57, 68, 80); a
command that cannot be executed returns an empty string and not NULL (47).

*words of simpsh*: `remove_comments` counts a double quote inside single quotes
only (`simpsh.c:114`), so that `"a # b"` is cut; a backslash is taken out by
each of the three passes; `""` is no word; a quote left open ends with the
line; of `a |` the `|` is a word (280).

*readline*: `insert_char()` keeps the address of a line that grew to itself
(32), so lines over 1023 characters go on in freed memory: the model ends there
as undefined. `history_index` is not set back by an empty line; the branch for
"not in history yet" is never reached (151); `isprint()` is asked about
keys above 255 (194). *getch*: what is typed between two keys is dropped (19, 23),
and over a line slower than 20 ms the rest of an escape sequence is text (54).

*monicall*: any other stop ends the tracing, and a signal that caused it is not
delivered (207, 253); `= ?` is printed for a call that has no catcher (235); a node
is read after it was freed (120); a failed `fork` does not show in the status (577).

*kconfig, expressions and menus*: for a symbol that is m, `expr_trans_bool` and
the second pass of `expr_eliminate_dups` do not keep the minimum and maximum of
`kconfig-language.txt` (146), so that `VisibleAsWritten` speaks of n and y;
`menu_finalize` takes `x != n` for `x` also where no file defines x.

*kconfig, values*: `conf_read` drops a setting that cannot be after others were
computed with it (a number out of its range, `confdata.c:363`; a choice one of
whose members has no line, 374), and they keep the old value until the next
change, in an order that depends on the hash table; the very number that was
dropped is, when typed again, taken for no change and neither shown nor saved
(`symbol.c:605`). A key that sets a switch to what it is makes it one the user
has set (`symbol.c:437`).

*kconfig, files*: no write to `.config` is checked (`confdata.c:444-556`), so
that a full disk puts a torn file in place, `.config.old` being the last whole
one, and `conf_write` says that it is written; saving again then moves the torn
file over the whole one. The first of the two renames is not checked either
(561): when it fails the new file replaces the old one, of which no copy is kept.
`ConfigSurvives` therefore speaks of one failure. With `KCONFIG_OVERWRITECONFIG`
the file is truncated first and nothing is kept. The header and `auto.conf` are
put in place torn as well (704-788), although `auto.conf` "marks the successful
completion of the previous steps" (799-800).

*mconf, conf*: conf visits only the first entry below the member that is taken
(`conf.c:389`), so that others that have no value yet make `check_conf` begin
again for ever (`Buried`); a number without default asks again for ever at the
end of the input, and in the modes that set everything (177, `Hopeless`). The
run has both, and `QuestionsEnd` fails without either exception. A comment
inside a choice can be selected in mconf's radio list, which passes a null
symbol (`mconf.c:749`); the model's user does not.

*boxes of mconf*: drawn again in another size, each box with buttons shows the
first one as active and keeps the one it had, which Enter presses
(`menubox.c:276`, `checklist.c:195`, `yesno.c:76`, `inputbox.c:94`), and a
menu goes back to the item that was active when it was opened, or takes the row
of the highlight for an item (248). A line that fits the field keeps the
scroll it had when it was longer (`inputbox.c:109`): letters then land behind
its end and are lost, and Backspace at the begin of the field can move the
place before the buffer (142; `InputUnderrun`). Backspace in an emptied
field only scrolls it (132). A text goes back four lines too many
(`textbox.c:255`, the height of the dialog for that of the box); one without a
newline at its end moves by a line each time it is drawn again, so that Right
makes a message of one line vanish (247). `conf_string`, `conf_load` and
`conf_save` ask again at once, for ever, when the terminal is too small for
their box (`mconf.c:789`, no case for that value).

*main*: `--version` anywhere on the command line keeps the applet from running.

## 7. Not modelled, and the plan

Left out for good: listing and printing tools (`ls`, `file`, `symtool`, `elf`,
`id`, `uname` and the like), random output (`passgen`, `uuidgen`), the build
scripts; the compression functions and the polynomial of crc32
(pure arithmetic, compared by test vectors); drawing and raw mode of `simped`; and of kconfig the drawing of boxes (frames, colours, the wrapping
of prompts, arrows), the scanner and the generated tables, hexadecimal numbers, the quoting of text, lists of default
files and `KCONFIG_*` variables, help and search, the view as a single menu,
and the warnings. A menu that shows nothing is
left at once by the code; in the model the user leaves it.

Next, in this order:

1. `switch_root` and `execby`: the order of their calls and what a failure
   leaves behind; xio beside Xalloc; the options of `dd`, `mv` and the digests;
2. `binedl`, `mkswap`, `yes` and the sizes of `truncate` (`parse_size`) under
   the properties of Streams and FileTools;
3. proofs: the control of `KConfig`; moves of mv with links
   in the source that lead off to a place of their own.
