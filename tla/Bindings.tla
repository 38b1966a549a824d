------------------------------ MODULE Bindings ------------------------------
(***************************************************************************)
(* The bindings of a file-system name-space (path/binding.c): which host   *)
(* path is seen at which guest path.  A binding is a pair of canonical     *)
(* paths; the user's are first kept in a pending list, then canonicalized  *)
(* and entered in a list ordered by guest path and one ordered by host     *)
(* path.  Lists are sequences of bindings.                                 *)
(***************************************************************************)
EXTENDS Paths

CONSTANTS GuestPaths,   \* what a user may give as the guest side
          HostPaths,    \* the host sides
          LookupPaths,  \* the canonical paths looked up
          MaxBindings   \* bound on the bindings given besides that of "/"

ASSUME BindingsAssumption == MaxBindings \in Nat

\* base is what getcwd2 leaves for a relative guest path; id tells bindings
\* apart; fails: its guest side cannot be canonicalized.
Binding(host, guest, base, id, fails) ==
    [host |-> host, guest |-> guest, base |-> base, id |-> id, fails |-> fails]

Side(b, side) == IF side = "HOST" THEN b.host ELSE b.guest

Without(list, b) == SelectSeq(list, LAMBDA x : x.id # b.id)

(***************************************************************************)
(* insort_binding: the place of a binding in a list.                       *)
(***************************************************************************)
Compared(list, side, b, i) == compare_paths(Side(b, side), Side(list[i], side))

\* What the new binding goes after: 0 when it goes first, as next is the first
\* element to begin with.
insort_place(list, side, b) ==
    LET after == {i \in DOMAIN list :
                    \/ Compared(list, side, b, i) = "PATH1_IS_PREFIX"
                    \/ side = "HOST" /\ Compared(list, side, b, i) = "PATHS_ARE_EQUAL"}
    IN  IF after = {} THEN 0 ELSE CHOOSE i \in after : \A j \in after : j <= i

\* The binding it replaces: the first one for the same guest path.
insort_replaced(list, side, b) ==
    {i \in DOMAIN list : /\ side # "HOST"
                         /\ Compared(list, side, b, i) = "PATHS_ARE_EQUAL"
                         /\ \A j \in 1..(i - 1) : Compared(list, side, b, j) # "PATHS_ARE_EQUAL"}

\* The three lists of a tracee after one insertion.
insort_binding(lists, side, b) ==
    LET list == lists[side]
        i == CHOOSE k \in insort_replaced(list, side, b) : TRUE
        kept == [s \in DOMAIN lists |-> Without(lists[s], list[i])]
    IN  IF insort_replaced(list, side, b) = {}
        THEN [lists EXCEPT ![side] = InsertAt(@, insort_place(list, side, b) + 1, b)]
        ELSE [kept EXCEPT ![side] = InsertAt(@, i, b)]

insort_binding2(lists, b) == insort_binding(insort_binding(lists, "GUEST", b), "HOST", b)

(***************************************************************************)
(* Setting up.                                                             *)
(***************************************************************************)
Cwd == <<"/", "a">>

\* getcwd2: the working directory; over an earlier configuration it writes
\* nothing, and the base is whatever was on new_binding's stack.
Bases(old) == IF old = <<>> THEN {Cwd} ELSE {Cwd, <<>>, <<"a">>}

\* A relative guest path is put behind the base, which may be no absolute path.
Absolute(guest, base) == join_paths(IF IsAbsolute(guest) THEN Root ELSE base, guest)

new_binding(lists, b) == insort_binding(lists, "PENDING", [b EXCEPT !.guest = Absolute(@, b.base)])

\* A final "!" says not to follow a link, and is not part of the path.
Sanitized(guest) ==
    chop_finality(canonicalize(Root, IF EndsWith(guest, "!") THEN Front(guest) ELSE guest))

\* The binding once its guest side is canonicalized: a failure leaves what was
\* done of it, "/".
canonicalized(b) ==
    IF compare_paths(b.guest, Root) = "PATHS_ARE_EQUAL" THEN b
    ELSE [b EXCEPT !.guest = IF b.fails THEN Root ELSE Sanitized(@)]

initialize_binding(lists, b) == IF b.fails THEN lists ELSE insort_binding2(lists, canonicalized(b))

\* Bindings of the previous configuration under the host side of a new one.
\* detranslate_path, which should make a guest path of it, leaves it alone.
add_induced_bindings(lists, b, old) ==
    LET path == b.host
        prefix == IF Len(path) = 1 THEN 0 ELSE Len(path)
        induce(ls, o) ==
            IF compare_paths(path, o.guest) # "PATH1_IS_PREFIX" THEN ls
            ELSE insort_binding2(ls, [o EXCEPT !.guest = join_paths(b.guest, From(o.guest, prefix)),
                                               !.id = 100 * b.id + o.id])
    IN  FoldLeft(induce, lists, old)

initialize_bindings(lists, old) ==
    FoldRight(LAMBDA b, ls : add_induced_bindings(initialize_binding(ls, b), canonicalized(b), old),
              lists.PENDING, lists)

Configure(bindings, old) ==
    initialize_bindings(FoldLeft(new_binding, [PENDING |-> <<>>, GUEST |-> <<>>, HOST |-> <<>>],
                                 bindings), old)

(***************************************************************************)
(* Looking up.                                                             *)
(***************************************************************************)
get_root(lists) == Last(lists.GUEST).host

\* belongs_to_guestfs says yes of every path.
Applies(lists, side, b, path) ==
    /\ compare_paths(Side(b, side), path) \in {"PATHS_ARE_EQUAL", "PATH1_IS_PREFIX"}
    /\ side = "HOST" => get_root(lists) = Root

NoBinding == [id |-> 0]

\* Mutant: the last binding that applies.
get_binding_last(lists, side, path) ==
    LET hits == {i \in DOMAIN lists[side] : Applies(lists, side, lists[side][i], path)}
    IN  IF hits = {} THEN NoBinding
        ELSE lists[side][CHOOSE i \in hits : \A j \in hits : j <= i]

get_binding(lists, side, path) ==
    LET hits == {i \in DOMAIN lists[side] : Applies(lists, side, lists[side][i], path)}
    IN  IF hits = {} THEN NoBinding
        ELSE lists[side][CHOOSE i \in hits : \A j \in hits : i <= j]

substitute_binding(lists, side, path) ==
    LET b == get_binding(lists, side, path)
        other == IF side = "HOST" THEN b.guest ELSE b.host
    IN  CASE b = NoBinding -> path
          [] b # NoBinding /\ compare_paths(b.host, b.guest) = "PATHS_ARE_EQUAL" -> path
          [] OTHER -> substitute_path_prefix(path, Len(Side(b, side)), other)

(***************************************************************************)
(* A configuration: the user's bindings, that of "/" among them, over no   *)
(* earlier configuration or over one with a nested binding.                *)
(***************************************************************************)
OldGuests == {<<>>, <<Binding(<<"/", "a", "a">>, <<"/", "a", "/", "a">>, Cwd, 1, FALSE),
                      Binding(Root, Root, Cwd, 2, FALSE)>>}

Bind ==
    \E n \in 0..MaxBindings, root \in HostPaths, old \in OldGuests, bad \in GuestPaths \cup {Root} :
    \E given \in [1..n -> HostPaths \X GuestPaths \X Bases(old)], at \in 0..n :
        LET Fails(guest, base) == Sanitized(Absolute(guest, base)) = Sanitized(Absolute(bad, Cwd))
            bs == [i \in 1..n |-> Binding(given[i][1], given[i][2], given[i][3], i + (IF i > at THEN 1 ELSE 0),
                                          Fails(given[i][2], given[i][3]))]
            user == InsertAt(bs, at + 1, Binding(root, Root, Cwd, at + 1, FALSE))
        IN  /\ \A i \in 1..n : IsAbsolute(given[i][2]) => given[i][3] = Cwd
            /\ Try("bind", [user |-> user, old |-> old], Configure(user, old))

(***************************************************************************)
(* Properties.                                                             *)
(***************************************************************************)
Sorted(list, side) ==
    \A i, j \in DOMAIN list :
        i < j => Compared(list, side, list[i], j) # "PATH1_IS_PREFIX"

\* insort_binding: whatever the order the bindings were given in, both lists
\* hold the same bindings, none comes before one nested in it, and that of "/"
\* is the last of the guest list, where get_root looks for it.
BindingsSorted ==
    trial.op = "bind" =>
        /\ ToSet(trial.out.GUEST) = ToSet(trial.out.HOST)
        /\ Len(trial.out.GUEST) = Len(trial.out.HOST)
        /\ Sorted(trial.out.GUEST, "GUEST") /\ Sorted(trial.out.HOST, "HOST")
        /\ Last(trial.out.GUEST).guest = Root

\* With no earlier configuration, a guest path is looked up in the deepest
\* binding that contains it, of those written the same in the last the user
\* gave.  (Of "/a" and "/a!" either may
\* win: the pending list has them in an order that other bindings decide.)
DeepestBinding ==
    trial.op = "bind" /\ trial.in.old = <<>> =>
        LET given == {u \in ToSet(trial.in.user) : ~u.fails}
            guest == [u \in given |-> Sanitized(Absolute(u.guest, u.base))]
        IN  \A p \in LookupPaths :
                LET holding == {u \in given : Under(p, guest[u])}
                    deepest == {u \in holding : \A v \in holding : Len(guest[v]) <= Len(guest[u])}
                IN  \E u \in deepest :
                        /\ get_binding(trial.out, "GUEST", p).id = u.id
                        /\ \A v \in deepest : Absolute(u.guest, u.base) = Absolute(v.guest, v.base) => v.id <= u.id

\* What an earlier configuration binds below the host side of a new binding is
\* bound below its guest side too.
InducedBound ==
    trial.op = "bind" =>
        \A b \in ToSet(trial.out.GUEST), o \in ToSet(trial.in.old) :
            b.id < 100 /\ b.host # o.guest /\ Under(o.guest, b.host) =>
                \E x \in ToSet(trial.out.GUEST) :
                    Components(x.guest) = Components(b.guest)
                                          \o From(Components(o.guest), Len(Components(b.host)))

\* A path moved to the host by a binding is under that binding's host side, and
\* the way back is closed when the root is not the host's own.
SubstitutionFollows ==
    trial.op = "bind" =>
        \A p \in LookupPaths :
            LET b == get_binding(trial.out, "GUEST", p)
                host == substitute_binding(trial.out, "GUEST", p)
            IN  /\ host # p => Under(host, b.host)
                /\ get_root(trial.out) # Root => substitute_binding(trial.out, "HOST", p) = p

\* binding.c: whatever bindings were given, in any order, a look-up follows the
\* one that is meant; and over an earlier configuration both lists stay
\* consistent and have the induced bindings, wherever getcwd2, which then
\* writes nothing, makes a relative guest path start.
BindingsExact ==
    /\ BindingsSorted
    /\ DeepestBinding
    /\ InducedBound
    /\ SubstitutionFollows

=============================================================================
