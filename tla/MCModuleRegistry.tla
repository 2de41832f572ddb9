-------------------------- MODULE MCModuleRegistry --------------------------
(***************************************************************************)
(* Four entries with equal and unequal priorities in an order that makes   *)
(* insert_sorted() put one at the head, one at the end and two in between, *)
(* and the command lines of up to three words over two applet names, an    *)
(* unknown one and the options that main() tells apart.                    *)
(***************************************************************************)
EXTENDS ModuleRegistry

MCDashed == {"--help", "--version", "-V", "-v", "-l", "-z"}
MCWord == MCDashed \cup {"ls", "dir", "sh", "dd", "toolen"}

MCSection == << [name |-> "ls",  priority |-> 1],
                [name |-> "dir", priority |-> 0],
                [name |-> "sh",  priority |-> 1],
                [name |-> "dd",  priority |-> 0] >>

MCArgvs ==
    LET first == {"ls", "sh", "toolen"}
        later == MCDashed \cup {"dir", "sh", "toolen"}
    IN  {<<a>> : a \in first} \cup {<<a, b>> : a \in first, b \in later}
        \cup {<<a, b, c>> : a \in first, b \in later, c \in {"-V", "dd"}}
=============================================================================
