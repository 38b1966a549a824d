------------------------------- MODULE Paths -------------------------------
(***************************************************************************)
(* The helpers on path names of path/path.c and path/canon.c.  A path is a *)
(* sequence of characters over a small alphabet, since what these          *)
(* functions can get wrong is where the separators are; the properties     *)
(* compare them with what they mean on lists of components.                *)
(***************************************************************************)
EXTENDS Integers, Sequences, SequencesExt, Trial

CONSTANTS Names,     \* the characters of a name; "." may be one
          MaxPath,   \* bound on the length of the paths tried
          PATH_MAX, NAME_MAX

\* "0" stands for the zero that ends a string.
ASSUME PathsAssumption ==
    MaxPath \in Nat /\ PATH_MAX \in Nat /\ NAME_MAX \in Nat /\ NAME_MAX > 2 /\ "/" \notin Names /\ "0" \notin Names

Chars == Names \cup {"/"}
Strings == UNION {[1..n -> Chars] : n \in 0..MaxPath}
Root == <<"/">>
TooLong == <<"-ENAMETOOLONG">>

IsAbsolute(p) == p # <<>> /\ Head(p) = "/"
EndsWith(p, c) == p # <<>> /\ Last(p) = c
Upto(p, n) == SubSeq(p, 1, n)
From(p, n) == SubSeq(p, n + 1, Len(p))

(***************************************************************************)
(* join_paths, for two paths.                                              *)
(***************************************************************************)
join_paths(a, b) ==
    LET joined == CASE a # <<>> /\ ~EndsWith(a, "/") /\ ~IsAbsolute(b) -> a \o Root \o b
                    [] EndsWith(a, "/") /\ IsAbsolute(b) -> a \o Tail(b)
                    [] OTHER -> a \o b
    IN  IF Len(joined) + 1 >= PATH_MAX THEN TooLong ELSE joined

(***************************************************************************)
(* chop_finality removes a final "/" or "/.".                              *)
(***************************************************************************)
chop_finality(p) ==
    IF EndsWith(p, ".") THEN Upto(p, IF Len(p) = 2 THEN 1 ELSE Len(p) - 2)
    ELSE IF EndsWith(p, "/") /\ Len(p) > 1 THEN Front(p)
    ELSE p

(***************************************************************************)
(* compare_paths2, on paths that are not empty.                            *)
(***************************************************************************)
Char(p, n) == IF n < Len(p) THEN p[n + 1] ELSE "0"

\* Mutant: the character after the common part is not looked at.
compare_paths_no_sentinel(a, b) ==
    LET l1 == IF EndsWith(a, "/") THEN Len(a) - 1 ELSE Len(a)
        l2 == IF EndsWith(b, "/") THEN Len(b) - 1 ELSE Len(b)
        min == IF l1 < l2 THEN l1 ELSE l2
    IN  IF Upto(a, min) # Upto(b, min) THEN "PATHS_ARE_NOT_COMPARABLE"
        ELSE IF l1 = l2 THEN "PATHS_ARE_EQUAL"
        ELSE IF l1 < l2 THEN "PATH1_IS_PREFIX" ELSE "PATH2_IS_PREFIX"

compare_paths(a, b) ==
    LET l1 == IF EndsWith(a, "/") THEN Len(a) - 1 ELSE Len(a)
        l2 == IF EndsWith(b, "/") THEN Len(b) - 1 ELSE Len(b)
        min == IF l1 < l2 THEN l1 ELSE l2
        sentinel == IF l1 < l2 THEN Char(b, min) ELSE Char(a, min)
    IN  IF sentinel \notin {"/", "0"} \/ Upto(a, min) # Upto(b, min)
        THEN "PATHS_ARE_NOT_COMPARABLE"
        ELSE IF l1 = l2 THEN "PATHS_ARE_EQUAL"
        ELSE IF l1 < l2 THEN "PATH1_IS_PREFIX" ELSE "PATH2_IS_PREFIX"

(***************************************************************************)
(* substitute_path_prefix replaces the first old characters of a path.  A  *)
(* result that is too long leaves the path as it is.                       *)
(***************************************************************************)
substitute_path_prefix(p, old, new) ==
    LET q == CASE Len(new) = 1 -> IF Len(p) = old THEN Root ELSE From(p, old)
               [] Len(new) # 1 /\ old = 1 -> IF Len(p) > 1 THEN new \o p ELSE new
               [] OTHER -> new \o From(p, old)
    IN  IF Len(new) # 1 /\ Len(new) + Len(p) - (IF old = 1 THEN 0 ELSE old) >= PATH_MAX
        THEN p ELSE q

(***************************************************************************)
(* translate_path, which runs in the tracer and asks for its own working   *)
(* directory.  link is what readlink finds behind the tracee's descriptor, *)
(* tracer_cwd the answer of getcwd; either call may fail.                  *)
(***************************************************************************)
CallFailed == <<"-errno">>
NotOpen == <<"-EBADF">>
NotDirectory == <<"-ENOTDIR">>

readlink_proc_pid_fd(link) ==
    IF link = CallFailed THEN NotOpen ELSE IF Len(link) >= PATH_MAX THEN TooLong ELSE link

\* The path a relative one is joined to, or an error.
start_of(fd, link, tracer_cwd) ==
    LET path == readlink_proc_pid_fd(link)
    IN  IF fd = "AT_FDCWD" THEN tracer_cwd
        ELSE IF path \in {NotOpen, TooLong} \/ IsAbsolute(path) THEN path ELSE NotDirectory

translate_path(user, fd, link, tracer_cwd) ==
    LET start == IF IsAbsolute(user) THEN Root ELSE start_of(fd, link, tracer_cwd)
    IN  IF IsAbsolute(start) THEN join_paths(start, user) ELSE start

(***************************************************************************)
(* canonicalize and its helpers.  A cursor is an index in the path.        *)
(***************************************************************************)
pop_component(p) ==
    LET Skip(k, S) == \* from offset k down to 1 while the character is in S
          IF \E n \in 2..k : p[n + 1] \notin S
          THEN CHOOSE n \in 2..k : p[n + 1] \notin S /\ \A m \in (n + 1)..k : p[m + 1] \in S
          ELSE 1
        slash == IF Len(p) = 2 THEN 1 ELSE Skip(Len(p) - 1, {"/"})
        name == IF slash = 1 THEN 1 ELSE Skip(slash, Names)
    IN  IF Len(p) = 1 THEN p ELSE Upto(p, name)

\* The first index from i on whose character is not in S.
SkipTo(p, i, S) ==
    IF \A n \in i..Len(p) : p[n] \in S THEN Len(p) + 1
    ELSE CHOOSE n \in i..Len(p) : p[n] \notin S /\ \A m \in i..(n - 1) : p[m] \in S

next_component(p, cursor) ==
    LET start == SkipTo(p, cursor, {"/"})
        end == SkipTo(p, start, Names)
        next == SkipTo(p, end, {"/"})
    IN  [component |-> SubSeq(p, start, end - 1), cursor |-> next,
         finality |-> IF next <= Len(p) THEN "NOT_FINAL"
                      ELSE IF end <= Len(p) THEN "FINAL_SLASH" ELSE "FINAL_NORMAL"]

canonicalize_component(s, c) ==
    LET final == c.finality # "NOT_FINAL"
    IN  CASE c.component = <<".">> ->
                [path |-> s.path, cursor |-> c.cursor,
                 finality |-> IF final THEN "FINAL_DOT" ELSE "NOT_FINAL"]
          [] c.component = <<".", ".">> ->
                [path |-> pop_component(s.path), cursor |-> c.cursor,
                 finality |-> IF final THEN "FINAL_SLASH" ELSE "NOT_FINAL"]
          [] OTHER -> [path |-> join_paths(s.path, c.component), cursor |-> c.cursor,
                       finality |-> c.finality]

\* A path that has become too long ends the walk, and so does a component
\* that next_component has no room for.
canonicalize_step(user, s) ==
    LET c == next_component(user, s.cursor)
    IN  IF s.finality # "NOT_FINAL" \/ s.path = TooLong THEN s
        ELSE IF Len(c.component) >= NAME_MAX
        THEN [path |-> TooLong, cursor |-> c.cursor, finality |-> c.finality]
        ELSE canonicalize_component(s, c)

\* The path at the end of the walk, with the slash or dot it ended with.
canonicalize_end(end) ==
    CASE end.path # TooLong /\ end.finality = "FINAL_SLASH" -> join_paths(end.path, <<>>)
      [] end.path # TooLong /\ end.finality = "FINAL_DOT"   -> join_paths(end.path, <<".">>)
      [] OTHER -> end.path

\* Links are not followed: nothing sets the status that says a component is one.
canonicalize(base, user) ==
    LET walk[n \in 0..(MaxPath + 1)] ==
          IF n = 0 THEN [path |-> IF IsAbsolute(user) THEN Root ELSE base, cursor |-> 1,
                         finality |-> "NOT_FINAL"]
          ELSE canonicalize_step(user, walk[n - 1])
    IN  IF Len(base) >= PATH_MAX THEN TooLong ELSE canonicalize_end(walk[MaxPath + 1])

(***************************************************************************)
(* The calls.                                                              *)
(***************************************************************************)
Join == \E a, b \in Strings : Try("join", [a |-> a, b |-> b], join_paths(a, b))

Chop == \E p \in Strings \ {<<>>, <<".">>} : Try("chop", [a |-> p], chop_finality(p))

Compare == \E a, b \in Strings \ {<<>>} : Try("compare", [a |-> a, b |-> b], compare_paths(a, b))

(***************************************************************************)
(* Canonical paths, and the components of a path.                          *)
(***************************************************************************)
\* What was read of a path: the components, and the name that is being read.
CutEnd(cut) == IF cut.name = <<>> THEN cut.done ELSE Append(cut.done, cut.name)

CutMore(cut, c) ==
    IF c = "/" THEN [done |-> CutEnd(cut), name |-> <<>>]
    ELSE [done |-> cut.done, name |-> Append(cut.name, c)]

CutUp(p) ==
    LET cut[n \in 0..Len(p)] ==
          IF n = 0 THEN [done |-> <<>>, name |-> <<>>] ELSE CutMore(cut[n - 1], p[n])
    IN  cut[Len(p)]

Components(p) == CutEnd(CutUp(p))

SingleSeparators(p) == \A n \in 1..(Len(p) - 1) : ~(p[n] = "/" /\ p[n + 1] = "/")

Canonical(p) ==
    /\ IsAbsolute(p)
    /\ Len(p) > 1 => Last(p) # "/"
    /\ SingleSeparators(p)

Plain(p) == \A name \in ToSet(Components(p)) : name \notin {<<".">>, <<".", ".">>}

Under(p, prefix) == IsPrefix(Components(prefix), Components(p))

Substitute ==
    \E p, old, new \in {s \in Strings : Canonical(s)} :
        /\ Under(p, old) /\ old # new
        /\ Try("substitute", [a |-> p, b |-> new, old |-> old],
               substitute_path_prefix(p, Len(old), new))

Canonicalize ==
    \E base \in {s \in Strings : Canonical(s) /\ Plain(s)}, user \in Strings :
        Try("canonicalize", [a |-> base, b |-> user], canonicalize(base, user))

\* The tracer and the tracee have a working directory each.
Translate ==
    \E user \in Strings, fd \in {"AT_FDCWD", "fd"}, link \in {<<"/", "a">>, <<"a">>, CallFailed},
       tracer \in {Root, <<"/", "a">>, CallFailed}, tracee \in {Root, <<"/", "a">>} :
        Try("translate", [a |-> user, fd |-> fd, link |-> link, tracer |-> tracer, tracee |-> tracee],
            translate_path(user, fd, link, tracer))

PathsNext == Join \/ Chop \/ Compare \/ Substitute \/ Canonicalize \/ Translate

PathsSpec == TrialInit /\ [][PathsNext]_trial

(***************************************************************************)
(* Properties.                                                             *)
(***************************************************************************)
\* Joining two paths joins their components and keeps the first one's start;
\* no separator is doubled at the joint, and the result always has room for a
\* final one and its end.
JoinExact ==
    trial.op = "join" /\ trial.out # TooLong =>
        /\ Len(trial.out) + 1 < PATH_MAX
        /\ SingleSeparators(trial.in.a) /\ SingleSeparators(trial.in.b) => SingleSeparators(trial.out)
        /\ trial.in.a # <<>> =>
              /\ Components(trial.out) = Components(trial.in.a) \o Components(trial.in.b)
              /\ IsAbsolute(trial.out) <=> IsAbsolute(trial.in.a)

\* On canonical paths the comparison is that of the lists of components: a
\* name that only starts like another one is never taken for its parent.
CompareExact ==
    trial.op = "compare" /\ Canonical(trial.in.a) /\ Canonical(trial.in.b) =>
        LET ca == Components(trial.in.a)
            cb == Components(trial.in.b)
        IN  trial.out = CASE ca = cb -> "PATHS_ARE_EQUAL"
                                [] ca # cb /\ IsPrefix(ca, cb) -> "PATH1_IS_PREFIX"
                                [] ca # cb /\ IsPrefix(cb, ca) -> "PATH2_IS_PREFIX"
                                [] OTHER -> "PATHS_ARE_NOT_COMPARABLE"

\* A path under a binding is moved under its other side, and stays canonical;
\* one that would be too long is left alone, which the caller is not told.
SubstituteExact ==
    trial.op = "substitute" =>
        \/ /\ Canonical(trial.out)
           /\ Components(trial.out) =
                 Components(trial.in.b)
                 \o From(Components(trial.in.a), Len(Components(trial.in.old)))
        \/ /\ trial.out = trial.in.a
           /\ Len(trial.in.a) + Len(trial.in.b) >= PATH_MAX

\* A final "/." goes as a whole, and nothing else of a canonical path: but of a name that ends with a
\* dot the last two characters go.
ChopExact ==
    trial.op = "chop" /\ Canonical(trial.in.a) =>
        LET names == Components(trial.in.a)
        IN  IF names # <<>> /\ EndsWith(Last(names), ".")
            THEN Last(names) = <<".">> => Components(trial.out) = Front(names) /\ Canonical(trial.out)
            ELSE Components(trial.out) = names /\ Canonical(trial.out)

\* Where a component leads from a list of names, and a list of components.
Follow(names, name) ==
    CASE name = <<".">> -> names
      [] name = <<".", ".">> -> IF names = <<>> THEN names ELSE Front(names)
      [] OTHER -> Append(names, name)

FollowAll(names, path) ==
    LET at[n \in 0..Len(path)] == IF n = 0 THEN names ELSE Follow(at[n - 1], path[n])
    IN  at[Len(path)]

\* The lexical meaning of a path relative to a canonical base.
Lexical(base, user) ==
    FollowAll(IF IsAbsolute(user) THEN <<>> ELSE Components(base), Components(user))

\* canonicalize never climbs above "/" and leaves no "." or "..", but a final
\* "." that says the path names a directory.
CanonicalizeExact ==
    trial.op = "canonicalize" /\ trial.out # TooLong =>
        LET names == Components(trial.out)
            plain == IF names # <<>> /\ Last(names) = <<".">> THEN Front(names) ELSE names
        IN  IsAbsolute(trial.out) /\ plain = Lexical(trial.in.a, trial.in.b)

\* What translate_path makes of a path, be it canonical or not: the path
\* behind "/", behind the directory of the tracee's descriptor, or behind the
\* working directory of the tracer, wherever the tracee's is (path.c:323-326
\* means the tracee's; the code, 363-366, asks for its own).  There is an
\* answer unless the path is relative and what it is relative to was not
\* found or is no directory, or the whole is too long.
TranslateStarts ==
    trial.op = "translate" =>
        LET relative == ~IsAbsolute(trial.in.a)
            start == CASE ~relative -> Root
                       [] relative /\ trial.in.fd = "fd" -> trial.in.link
                       [] OTHER -> trial.in.tracer
        IN  /\ IsAbsolute(trial.out) =>
                  /\ IsAbsolute(start)
                  /\ Components(trial.out) = Components(start) \o Components(trial.in.a)
            /\ ~IsAbsolute(trial.out) /\ trial.out # TooLong => relative /\ ~IsAbsolute(start)

\* path.c and canon.c: each helper does to the characters what it means on the
\* list of components.
PathsExact ==
    /\ JoinExact
    /\ CompareExact
    /\ SubstituteExact
    /\ ChopExact
    /\ CanonicalizeExact
    /\ TranslateStarts

=============================================================================
