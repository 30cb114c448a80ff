-------------------------------- MODULE Paths --------------------------------
(***************************************************************************)
(* A PathBuf and an iterator over its components.                          *)
(*                                                                         *)
(* The buffer is changed by push, pop, set_file_name and set_extension as  *)
(* long as no iterator borrows it; a Components iterator is moved from     *)
(* both ends in any order.  What the iterator has given from either end is *)
(* recorded in `fronts` and `backs`.                                       *)
(***************************************************************************)
EXTENDS PathStrings, FiniteSets, SequencesExt

CONSTANTS
  MaxText,  \* bound: characters of the initial path
  MaxLen,   \* bound: bytes of the buffer
  Args      \* arguments of the calls

ASSUME PathsAssumption ==
  /\ MaxText \in Nat /\ MaxLen \in Nat
  /\ Args \subseteq Str

VARIABLES
  buf,     \* PathBuf::inner
  iters,   \* the iterator, if there is one
  fronts,  \* the components next has returned, in order
  backs    \* the components next_back has returned, in order

vars == <<buf, iters, fronts, backs>>

(* The texts a PathBuf is made from: bytes, with "w" "v" as one character. *)
Char == {<<"/">>, <<".">>, <<"a">>, <<"w", "v">>}
Texts == {FlattenSeq(s) : s \in BoundedSeq(Char, MaxText)}

Init ==
  /\ buf \in Texts
  /\ iters = {}
  /\ fronts = <<>> /\ backs = <<>>

Change(new) ==
  /\ iters = {}
  /\ Len(new) <= MaxLen
  /\ buf' = new
  /\ UNCHANGED <<iters, fronts, backs>>

Push == \E path \in Args : Change(push(buf, path))

Pop == Change(pop(buf).buf)

SetFileName == \E name \in Args : Change(set_file_name(buf, name))

SetExtension == \E new \in Args : \E changed \in set_extension(buf, new) : Change(changed)

(* Path::components.                                                       *)
Iterate ==
  /\ iters = {}
  /\ iters' = {Components(buf)}
  /\ UNCHANGED <<buf, fronts, backs>>

Given(comp) == IF comp = None THEN <<>> ELSE <<comp>>

Forward ==
  \E it \in iters :
    /\ iters' = {next[it].it}
    /\ fronts' = fronts \o Given(next[it].comp)
    /\ UNCHANGED <<buf, backs>>

Backward ==
  \E it \in iters :
    /\ iters' = {next_back[it].it}
    /\ backs' = backs \o Given(next_back[it].comp)
    /\ UNCHANGED <<buf, fronts>>

Drop ==
  /\ iters # {}
  /\ iters' = {} /\ fronts' = <<>> /\ backs' = <<>>
  /\ UNCHANGED buf

Next == Push \/ Pop \/ SetFileName \/ SetExtension \/ Iterate \/ Forward \/ Backward \/ Drop

Spec == Init /\ [][Next]_vars
-----------------------------------------------------------------------------
(* Properties.                                                             *)

(* A continuation byte stands behind the first byte of its character.      *)
IsUtf8(s) ==
  /\ s # <<>> => s[1] # "v" /\ Last(s) # "w"
  /\ \A i \in 1..(Len(s) - 1) : s[i] = "w" <=> s[i + 1] = "v"

(* The buffer is always valid UTF-8: as_path's from_utf8_unchecked and the *)
(* truncate of pop and set_extension take that for granted.                *)
TypeOK ==
  /\ buf \in Str /\ Len(buf) <= MaxLen
  /\ iters \subseteq Iter /\ Cardinality(iters) <= 1
  /\ fronts \in Seq(Str) /\ backs \in Seq(Str)
  /\ IsUtf8(buf)

(* However next and next_back alternate, they give every part of the path  *)
(* once, the first ones from the front and the last ones from the back;    *)
(* as_path is at any moment a path of just the parts that are still to     *)
(* come, and None comes when there are none.                               *)
EachPartOnce ==
  \A it \in iters :
    LET rest == Parts(as_path(it))
    IN  /\ Parts(buf) = fronts \o rest \o Reverse(backs)
        /\ (next[it].comp = None) <=> (rest = <<>>)
        /\ (next_back[it].comp = None) <=> (rest = <<>>)

(* pop removes exactly the last part, and refuses only the root and a      *)
(* path without parts ("debug_assert!(popped)" in set_file_name).          *)
PopRemovesLast ==
  iters = {} =>
    IF Parts(buf) \in {<<>>, <<RootDir>>}
    THEN pop(buf) = [popped |-> FALSE, buf |-> buf]
    ELSE pop(buf).popped /\ Parts(pop(buf).buf) = Front(Parts(buf))

(* ancestors goes through every prefix of the parts down to "/" or "", and *)
(* strip_prefix of each one gives the parts behind it: the unwrap in       *)
(* DirectoryCache::_get never fails.                                       *)
AncestorsStrip ==
  iters = {} =>
    LET up == ancestors[buf]
    IN  /\ Last(up) \in {RootDir, <<>>} \/ Len(up) = 1
        /\ \A k \in DOMAIN up :
              /\ Parts(up[k]) = SubSeq(Parts(buf), 1, Len(Parts(buf)) - k + 1)
              /\ \E rest \in strip_prefix(buf, up[k]) :
                    Parts(up[k]) \o Parts(rest) = Parts(buf)

(* starts_with and ends_with compare parts, not texts.                     *)
ComparesParts ==
  iters = {} =>
    \A q \in Args :
      /\ starts_with(buf, q) <=> IsPrefix(Parts(q), Parts(buf))
      /\ ends_with(buf, q) <=> IsSuffix(Parts(q), Parts(buf))

(* set_extension replaces the extension of the last part and leaves the    *)
(* other parts alone, and with_extension does the same to a copy of a path *)
(* that ends in its name, or has an ASCII name.  (Not of "..a", whose stem *)
(* is ".", nor of "...", whose stem is "..".)                              *)
ExtensionOnly ==
  iters = {} =>
    \A new \in {q \in Args : ~Contains(q, "/")}, name \in file_name(buf) :
      \A stem \in file_stem(buf) \ {CurDir, ParentDir} :
        \A changed \in set_extension(buf, new) :
          /\ Parts(changed) =
               Front(Parts(buf)) \o <<stem \o (IF new = <<>> THEN <<>> ELSE <<".">> \o new)>>
          /\ IsSuffix(name, buf) \/ ~Contains(name, "w")
               => with_extension(buf, new) = {changed}

(* file_prefix ends at the first dot of the name that is not in front.     *)
(* (Of an ASCII name: the dot is counted in characters.)                   *)
PrefixToFirstDot ==
  iters = {} =>
    \A name \in {n \in file_name(buf) : ~Contains(n, "w")} :
      \E i \in DOMAIN name :
        /\ file_prefix(buf) = {SubSeq(name, 1, i)}
        /\ \A k \in 2..i : ~IsDot(name[k])
        /\ i < Len(name) => IsDot(name[i + 1])

(* A relative path joined to one that is empty or ends in a separator adds *)
(* its parts.                                                              *)
JoinsBehindSeparator ==
  iters = {} /\ (buf = <<>> \/ IsSep(Last(buf))) =>
    \A q \in Args : ~has_physical_root(q) =>
      Parts(join(buf, q)) = IF buf = <<>> THEN Parts(q)
                            ELSE Parts(buf) \o SelectSeq(Words(q), IsPart)
=============================================================================
