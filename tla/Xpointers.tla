----------------------------- MODULE Xpointers -----------------------------
(***************************************************************************)
(* Arrays of pointers in the tracee, argv and envp, edited by the tracer   *)
(* (execve/aoxp.c): an entry is an address in the tracee (remote), with a  *)
(* copy in the tracer (local) once it was read or replaced.  Pushing puts  *)
(* the array and every copy in a new block of the tracee's stack, and its  *)
(* address in the register the kernel takes the array from.                *)
(*                                                                         *)
(* want is the list of strings the edits amount to; NULL ends a list for   *)
(* the kernel.  Allocations succeed, and an array that cannot be fetched   *)
(* is not edited.                                                          *)
(***************************************************************************)
EXTENDS Integers, Sequences, SequencesExt, FiniteSetsExt

CONSTANTS Texts,       \* the strings; the length of one with its end is SizeOfText[s]
          SizeOfText,
          MaxArray,    \* bound on the entries
          MaxEdits     \* bound on the edits of one array

ASSUME XpointersAssumption ==
    /\ SizeOfText \in [Texts -> Nat \ {0}] /\ {"NULL", "?"} \cap Texts = {}
    /\ MaxArray \in Nat /\ MaxEdits \in Nat

VARIABLES array,   \* the entries
          want,    \* what they should stand for
          memory,  \* the strings in the tracee, by address
          words,   \* the array of the tracee its register points to
          pushed,  \* "none", "no", "yes", "unchanged", "failed" or "abort"
          resized, \* was the array resized?
          edits

xvars == <<array, want, memory, words, pushed, resized, edits>>

NULL == "NULL"
WordSize == 2
XPointer(remote, local) == [remote |-> remote, local |-> local]

XpointersInit ==
    /\ array = <<>> /\ want = <<>> /\ words = <<>> /\ edits = 0
    /\ memory = [a \in {} |-> NULL]
    /\ pushed = "none" /\ resized = FALSE

\* The string at an address; "?" cannot be read.
TextAt(address) == IF address = 0 THEN NULL ELSE memory[address]

\* What the kernel reads as argv or envp.
Given == [i \in DOMAIN words |-> TextAt(words[i])]

\* An array of the tracee, with its NULL, or the first entries of one.
fetch_array_of_xpointers ==
    \E n \in 1..MaxArray, whole \in BOOLEAN : \E strings \in [1..n -> Texts \cup {"?"}] :
        LET given == IF whole THEN [strings EXCEPT ![n] = NULL] ELSE strings
        IN  /\ pushed = "none"
            /\ memory' = [a \in 1..n |-> given[a]]
            /\ words' = [i \in 1..n |-> IF given[i] = NULL THEN 0 ELSE i]
            /\ array' = [i \in 1..n |-> XPointer(words'[i], NULL)]
            /\ want' = given
            /\ pushed' = "no"
            /\ UNCHANGED <<resized, edits>>

\* An entry after reading it: a copy is made once.
read_xpointee_as_string(i) ==
    IF array[i].local # NULL \/ array[i].remote = 0 \/ TextAt(array[i].remote) = "?" THEN array[i]
    ELSE [array[i] EXCEPT !.local = TextAt(array[i].remote)]

Unreadable(i) == array[i].local = NULL /\ TextAt(array[i].remote) = "?"

Edit == /\ pushed = "no" /\ edits < MaxEdits
        /\ edits' = edits + 1
        /\ UNCHANGED <<memory, words, pushed>>

\* What is compared is read: up to the first entry that is the same, or that
\* cannot be read.
find_xpointee ==
    \E s \in Texts :
        LET found == {i \in DOMAIN array : Unreadable(i) \/ read_xpointee_as_string(i).local = s}
            last == IF found = {} THEN Len(array) ELSE Min(found)
        IN  /\ Edit
            /\ array' = [i \in DOMAIN array |-> IF i <= last THEN read_xpointee_as_string(i) ELSE array[i]]
            /\ UNCHANGED <<want, resized>>

write_xpointee_as_string ==
    \E i \in DOMAIN array, s \in Texts :
        /\ Edit
        /\ array' = [array EXCEPT ![i].local = s]
        /\ want' = [want EXCEPT ![i] = s]
        /\ UNCHANGED resized

\* Entries are inserted before the index, or removed before it.
\* Mutant: entries that are inserted keep what was there.
resize_array_of_xpointers_dirty(list, index, delta, empty) ==
    SubSeq(list, 1, IF delta < 0 THEN index + delta ELSE index)
    \o (IF delta < 0 THEN <<>> ELSE [n \in 1..delta |-> list[index + 1]])
    \o SubSeq(list, index + 1, Len(list))

resize_array_of_xpointers(list, index, delta, empty) ==
    SubSeq(list, 1, IF delta < 0 THEN index + delta ELSE index)
    \o (IF delta < 0 THEN <<>> ELSE [n \in 1..delta |-> empty])
    \o SubSeq(list, index + 1, Len(list))

\* index is counted from 0.
Resize ==
    \E index \in 0..(Len(array) - 1), delta \in {-1, 1, 2} :
        /\ Edit
        /\ -delta <= index /\ Len(array) + delta <= MaxArray
        /\ array' = resize_array_of_xpointers(array, index, delta, XPointer(0, NULL))
        /\ want' = SubSeq(want, 1, IF delta < 0 THEN index + delta ELSE index)
                   \o [n \in 1..(IF delta < 0 THEN 0 ELSE delta) |-> NULL]
                   \o SubSeq(want, index + 1, Len(want))
        /\ resized' = TRUE

(***************************************************************************)
(* Pushing.                                                                *)
(***************************************************************************)
Copied == {i \in DOMAIN array : array[i].local # NULL}

\* Where the copy of an entry goes in the block, after the array itself.
OffsetOf(i) ==
    LET offsets[n \in 0..Len(array)] ==
            IF n = 0 THEN Len(array) * WordSize
            ELSE IF n \in Copied THEN offsets[n - 1] + SizeOfText[array[n].local] ELSE offsets[n - 1]
    IN  offsets[i - 1]

\* The address of the block, apart from the strings.
NewBlock == MaxArray + 1

push_array_of_xpointers ==
    \E room, written \in BOOLEAN :
        LET pod == [i \in DOMAIN array |-> IF i \in Copied THEN NewBlock + OffsetOf(i) ELSE array[i].remote]
        IN  /\ pushed = "no" \/ (pushed = "failed" /\ room /\ written)
            /\ pushed' = CASE Copied = {} -> "unchanged"
                           [] Copied # {} /\ Copied = DOMAIN array -> "abort"
                           [] OTHER -> IF room /\ written THEN "yes" ELSE "failed"
            /\ words' = IF pushed' = "yes" THEN pod ELSE words
            /\ array' = [i \in DOMAIN array |->
                            IF i \notin Copied THEN array[i]
                            ELSE [array[i] EXCEPT !.remote = IF room THEN pod[i] ELSE OffsetOf(i)]]
            /\ memory' = IF pushed' # "yes" THEN memory
                         ELSE [a \in DOMAIN memory \cup {pod[i] : i \in Copied} |->
                                  IF \E i \in Copied : pod[i] = a
                                  THEN array[CHOOSE i \in Copied : pod[i] = a].local ELSE memory[a]]
            /\ UNCHANGED <<want, resized, edits>>

XpointersNext ==
    \/ fetch_array_of_xpointers \/ find_xpointee \/ write_xpointee_as_string \/ Resize
    \/ push_array_of_xpointers

XpointersSpec == XpointersInit /\ [][XpointersNext]_xvars

(***************************************************************************)
(* Properties.                                                             *)
(***************************************************************************)
CopySpan(i) == words[i]..(words[i] + SizeOfText[array[i].local] - 1)

\* push_array_of_xpointers: what the kernel reads through the words pushed is
\* the list the edits amount to, entries that were never looked at included, and
\* after a push that failed and one that did not; the copies in the block are
\* apart from each other and from the array.
PushedExact ==
    pushed = "yes" =>
        /\ Given = want
        /\ \A i \in Copied :
              /\ NewBlock + Len(array) * WordSize <= words[i]
              /\ \A j \in Copied \ {i} : CopySpan(i) \cap CopySpan(j) = {}

\* push_array_of_xpointers, where it writes nothing: the tracee's own array, which
\* it keeps, is the list the edits amount to, unless they only added or removed
\* entries; the assertion stops the tracer only on an array without a NULL.
PushedUnlessSame ==
    /\ pushed = "unchanged" /\ ~resized => Given = want
    /\ pushed = "abort" => NULL \notin ToSet(want)

\* push_array_of_xpointers: the kernel is given the edited array, be it the
\* tracee's own when nothing was edited. An array that was resized, and of which no
\* entry was read or replaced, is not pushed.
ArrayPushed == PushedExact /\ PushedUnlessSame

=============================================================================
