--------------------------- MODULE ModuleRegistry ---------------------------
(***************************************************************************)
(* The multi-call binary of main/: module.c copies the entries the linker  *)
(* collected in module_section into a list ordered by priority, and main() *)
(* of main.c looks the list up to run the applet that argv[0] or argv[1]   *)
(* names.  An entry is known by its index in the section.                  *)
(***************************************************************************)
EXTENDS Naturals, Sequences

CONSTANTS Word,         \* what argv holds, argv[0] without its directory
          Dashed,       \* the words that begin with '-'
          Section,      \* the entries of module_section, in link order
          Argvs         \* the command lines considered

Entry == 1..Len(Section)
Name(e) == Section[e].name
Priority(e) == Section[e].priority

\* The macros of module.h give every entry a name of its own and a priority.
ASSUME SectionAssumption ==
    /\ Section \in Seq([name : Word \ Dashed, priority : Nat])
    /\ \A e, f \in Entry : Name(e) = Name(f) => e = f
ASSUME ArgvAssumption == Argvs \subseteq Seq(Word) \ {<<>>}

VARIABLES argv,         \* the command line, progname first
          registry,     \* module_registry: the list of copied entries
          initialized,  \* the static flag of module_registry_init()
          scan,         \* the entry module_registry_init() copies next, or 0
          pc,           \* the function main() has reached
          entered,      \* that function has called module_registry_init()
          visit,        \* the list position the loop of run_module() is at
          ran,          \* the entries whose main function was called
          status        \* what main() returns or the process exits with

vars == <<argv, registry, initialized, scan, pc, entered, visit, ran, status>>

\* Mutant of Found: the walk ends one node early (f->next instead of f).
Found_LastMissed(w) == \E i \in 1..(Len(registry) - 1) : Name(registry[i]) = w

\* strcmp() of w with each name on the list
Found(w) == \E i \in 1..Len(registry) : Name(registry[i]) = w

VersionAsked ==
    \E i \in 1..Len(argv) : argv[i] \in {"--version", "-V"}

\* The list with e behind its n-th entry.
InsertBehind(list, n, e) ==
    SubSeq(list, 1, n) \o <<e>> \o SubSeq(list, n + 1, Len(list))

\* Mutant of InsertSorted: the walk stops at an entry of equal priority.
InsertSorted_NotStable(list, e) ==
    LET n == CHOOSE k \in 0..Len(list) :
               /\ \A i \in 1..k : Priority(list[i]) < Priority(e)
               /\ k < Len(list) => Priority(list[k + 1]) >= Priority(e)
    IN  InsertBehind(list, n, e)

\* insert_sorted(): the new entry becomes the head of an empty list or of
\* one whose head has a larger priority; otherwise it goes behind the longest
\* run of entries after the head whose priority is not larger.
InsertSorted(list, e) ==
    IF list = <<>> \/ Priority(e) < Priority(Head(list))
    THEN <<e>> \o list
    ELSE LET n == CHOOSE k \in 1..Len(list) :
                    /\ \A i \in 2..k : Priority(list[i]) <= Priority(e)
                    /\ k < Len(list) => Priority(list[k + 1]) > Priority(e)
         IN  InsertBehind(list, n, e)

Init ==
    /\ argv \in Argvs
    /\ registry = <<>>
    /\ initialized = FALSE
    /\ scan = 0
    /\ pc = "find0"
    /\ entered = FALSE
    /\ visit = 0
    /\ ran = <<>>
    /\ status = 0

\* Control passes to another function of module.c, or main() returns.
Goto(there) ==
    /\ pc' = there
    /\ entered' = FALSE

Return(code) ==
    /\ Goto("done")
    /\ status' = code

-----------------------------------------------------------------------------
\* find_module(), run_module() and list_all_modules() all begin with a call
\* of module_registry_init(), which does its work once.
EnterInit ==
    /\ pc # "done"
    /\ ~entered
    /\ entered' = TRUE
    /\ initialized' = TRUE
    /\ scan' = IF initialized THEN scan ELSE 1
    /\ UNCHANGED <<argv, registry, pc, visit, ran, status>>

\* One round of its loop over the section.
CopyEntry ==
    /\ scan \in Entry
    /\ registry' = InsertSorted(registry, scan)
    /\ scan' = scan + 1
    /\ UNCHANGED <<argv, initialized, pc, entered, visit, ran, status>>

\* malloc() fails: exit(1) from the middle of the loop.
CopyFails ==
    /\ scan \in Entry
    /\ scan' = 0
    /\ Return(1)
    /\ UNCHANGED <<argv, registry, initialized, visit, ran>>

\* Mutant of InitDone: the end of the section is taken for its last entry.
InitDone_Early ==
    /\ scan = Len(Section)
    /\ scan' = 0
    /\ UNCHANGED <<argv, registry, initialized, pc, entered, visit, ran, status>>

InitDone ==
    /\ scan = Len(Section) + 1
    /\ scan' = 0
    /\ UNCHANGED <<argv, registry, initialized, pc, entered, visit, ran, status>>

\* The function has the registry it asked for.
Ready(f) == pc = f /\ entered /\ scan = 0

\* find_module(progname), and what main() does of its answer.
FindProgname ==
    /\ Ready("find0")
    /\ \/ Found(argv[1]) /\ VersionAsked /\ Return(0) /\ UNCHANGED visit
       \/ /\ Found(argv[1]) /\ ~VersionAsked
          /\ Goto("run") /\ visit' = 1
          /\ UNCHANGED status
       \/ /\ ~Found(argv[1]) /\ Len(argv) > 1
          /\ Goto("find1")
          /\ UNCHANGED <<visit, status>>
       \/ /\ ~Found(argv[1]) /\ Len(argv) = 1           \* show_help()
          /\ Goto("list") /\ status' = 1
          /\ UNCHANGED visit
    /\ UNCHANGED <<argv, registry, initialized, scan, ran>>

\* Mutant of FindArgv1: run_module() is given argv where argv + 1 is meant.
FindArgv1_KeepsArgv ==
    /\ Ready("find1")
    /\ Found(argv[2])
    /\ Goto("run") /\ visit' = 1
    /\ UNCHANGED <<argv, registry, initialized, scan, ran, status>>

\* find_module(argv[1]): an applet, an option of the binary, or neither.  An
\* applet is given the arguments from its own name on.
FindArgv1 ==
    /\ Ready("find1")
    /\ LET w == argv[2] IN
       \/ /\ Found(w) /\ w \notin Dashed /\ VersionAsked
          /\ Return(0) /\ UNCHANGED <<argv, visit>>
       \/ /\ Found(w) /\ w \notin Dashed /\ ~VersionAsked
          /\ Goto("run") /\ visit' = 1
          /\ argv' = Tail(argv)
          /\ UNCHANGED status
       \/ /\ w \in {"--help", "-h", "--list", "-l"}
          /\ Goto("list") /\ status' = 0
          /\ UNCHANGED <<argv, visit>>
       \/ w \in {"--version", "-v"} /\ Return(0) /\ UNCHANGED <<argv, visit>>
       \/ /\ \/ w \in Dashed \ {"--help", "-h", "--list", "-l", "--version", "-v"}
             \/ w \notin Dashed /\ ~Found(w)
          /\ Return(1) /\ UNCHANGED <<argv, visit>>
    /\ UNCHANGED <<registry, initialized, scan, ran>>

\* list_all_modules(), alone or at the end of show_help()
ListAll ==
    /\ Ready("list")
    /\ Goto("done")
    /\ UNCHANGED <<argv, registry, initialized, scan, visit, ran, status>>

\* Mutant of VisitEntry: the test of strcmp() is inverted.
VisitEntry_Inverted ==
    /\ Ready("run")
    /\ visit <= Len(registry)
    /\ visit' = visit + 1
    /\ ran' = IF Name(registry[visit]) = argv[1] THEN ran
              ELSE Append(ran, registry[visit])
    /\ UNCHANGED <<argv, registry, initialized, scan, pc, entered, status>>

\* The loop of run_module() reaches an entry: one of another name is passed
\* over; the main function of one with this name returns a status and the
\* loop goes on, or it calls exit().
VisitEntry ==
    /\ Ready("run")
    /\ visit <= Len(registry)
    /\ LET e == registry[visit] IN
       \/ /\ Name(e) # argv[1]
          /\ visit' = visit + 1
          /\ UNCHANGED <<pc, entered, ran, status>>
       \/ /\ Name(e) = argv[1]
          /\ ran' = Append(ran, e)
          /\ \E code \in {0, 1} :
                \/ /\ visit' = visit + 1
                   /\ status' = code
                   /\ UNCHANGED <<pc, entered>>
                \/ Return(code) /\ UNCHANGED visit
    /\ UNCHANGED <<argv, registry, initialized, scan>>

RunDone ==
    /\ Ready("run")
    /\ visit > Len(registry)
    /\ Return(IF ran = <<>> THEN 1 ELSE status)
    /\ UNCHANGED <<argv, registry, initialized, scan, visit, ran>>

Next ==
    \/ EnterInit \/ CopyEntry \/ CopyFails \/ InitDone
    \/ FindProgname \/ FindArgv1 \/ ListAll
    \/ VisitEntry \/ RunDone

Spec == Init /\ [][Next]_vars

-----------------------------------------------------------------------------
TypeOK ==
    /\ argv \in Seq(Word) \ {<<>>}
    /\ registry \in Seq(Entry)
    /\ initialized \in BOOLEAN
    /\ scan \in 0..(Len(Section) + 1)
    /\ pc \in {"find0", "find1", "run", "list", "done"}
    /\ entered \in BOOLEAN
    /\ visit \in Nat
    /\ ran \in Seq(Entry)
    /\ status \in {0, 1}

\* e belongs before f: a smaller priority first, link order among equals.
Before(e, f) ==
    \/ Priority(e) < Priority(f)
    \/ Priority(e) = Priority(f) /\ e < f

\* At every moment of the registration the list is strictly ordered by
\* priority and then by link order, so insert_sorted() is a stable sort and
\* no entry is on the list twice, however often initialization is asked for.
RegistryOrdered ==
    \A i, j \in 1..Len(registry) : i < j => Before(registry[i], registry[j])

\* A function that reads the list reads a complete one: every entry of the
\* section is on it, also when an earlier lookup built it.
RegistryComplete ==
    entered /\ scan = 0 => \A e \in Entry : \E i \in 1..Len(registry) : registry[i] = e

\* One command line runs at most one applet, and it is the one named by the
\* first word of what the applet is given as its arguments.
RunsTheOneNamed ==
    /\ Len(ran) <= 1
    /\ ran # <<>> => Name(ran[1]) = argv[1]

\* The first argument is taken for an applet's name only if no applet has the
\* name the binary was started under: a symlink always wins.
LinkNameWins == [][argv' # argv => \A e \in Entry : Name(e) # argv[1]]_vars

\* Once main() has decided to run an applet, that applet does run: the lookup
\* that found it and the loop that runs it agree.
NothingLost == pc = "done" /\ visit > Len(registry) => ran # <<>>
=============================================================================
