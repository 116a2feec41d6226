----------------------------- MODULE FileCustody -----------------------------
(***************************************************************************)
(* What the file services promise about the books they handle, whatever    *)
(* fails on the way: a file is always somewhere until somebody decides     *)
(* that it may go.  A file is followed by what is in it, not by its name;  *)
(* while it is copied it may be in two places.                             *)
(***************************************************************************)
EXTENDS FiniteSets

CONSTANT Contents  \* what the files of the world contain, one value per book file

Places == {"download", "library", "bin"}

VARIABLES where,   \* [Contents -> SUBSET Places]: the places a file is found in
          given    \* the files somebody gave up: the user, or the emptying of the bin

vars == <<where, given>>

CInit == /\ where = [c \in Contents |-> {}]
         /\ given = {}

\* A file appears: a download completes, or the user copies a book in.
Appears(c) == where[c] = {} /\ Cardinality(where'[c]) = 1 /\ "bin" \notin where'[c]

\* The services work on a file: it may go through two places at once, it is
\* never nowhere, and what is only in the bin stays there.
Handled(c) == /\ where'[c] # {}
              /\ where[c] = {"bin"} => where'[c] = {"bin"}

\* Somebody gave the file up: it may be gone.
GivenUp(c) == c \in given'

CNext == /\ given \subseteq given'
         /\ \A c \in Contents : \/ where'[c] = where[c]
                                \/ Appears(c)
                                \/ Handled(c)
                                \/ GivenUp(c)

CSpec == CInit /\ [][CNext]_vars
=============================================================================
