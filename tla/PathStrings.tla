----------------------------- MODULE PathStrings -----------------------------
(***************************************************************************)
(* Paths: kernel/src/fs/path/{components,mod,pathbuf,ancestors}.rs.        *)
(*                                                                         *)
(* A str is the sequence of its bytes.  "/" and "." are the bytes the code *)
(* looks at; "w" "v" stands for a character of two bytes, "v" being the    *)
(* continuation byte at which a str must not be cut.  A Component is what  *)
(* its as_ref gives: <<"/">>, <<".">>, <<".", ".">> or a name.  An Option  *)
(* is a set of at most one element.                                        *)
(***************************************************************************)
EXTENDS Naturals, Sequences

Str == Seq(STRING)

RootDir == <<"/">>
CurDir == <<".">>
ParentDir == <<".", ".">>
None == <<>>  \* no component; no component is empty

IsSep(byte) == byte = "/"
IsDot(byte) == byte = "."

(* Iterator::position and rposition: where the first and the last such     *)
(* byte is, counted from 1, or 0 if there is none.                         *)
position(s, byte) ==
  IF \E i \in DOMAIN s : s[i] = byte
  THEN CHOOSE i \in DOMAIN s : s[i] = byte /\ \A j \in 1..(i - 1) : s[j] # byte
  ELSE 0

rposition(s, byte) ==
  IF \E i \in DOMAIN s : s[i] = byte
  THEN CHOOSE i \in DOMAIN s : s[i] = byte /\ \A j \in (i + 1)..Len(s) : s[j] # byte
  ELSE 0

Behind(s, size) == SubSeq(s, size + 1, Len(s))
Before(s, size) == SubSeq(s, 1, Len(s) - size)

(* The states of an iterator, in the order of the enum.                    *)
StartDir == 0
Body == 1
Done == 2

(* Components: the bytes not yet consumed, and how far each end has come.  *)
Iter == [path : Str, root : BOOLEAN, front : StartDir..Done, back : StartDir..Done]

has_physical_root(s) == s # <<>> /\ IsSep(s[1])

Components(s) ==
  [path |-> s, root |-> has_physical_root(s), front |-> StartDir, back |-> Body]

-----------------------------------------------------------------------------
(* components.rs                                                           *)

parse_single_component(comp) == IF comp = CurDir THEN None ELSE comp

finished(it) == it.front = Done \/ it.back = Done \/ it.front > it.back

include_cur_dir(it) ==
  /\ ~it.root
  /\ it.path # <<>> /\ IsDot(it.path[1])
  /\ Len(it.path) > 1 => IsSep(it.path[2])

(* Mutant: a leading "/" or "." that is consumed already is counted.       *)
len_before_body_stale(it) == IF it.root \/ include_cur_dir(it) THEN 1 ELSE 0

len_before_body(it) ==
  IF it.front = StartDir /\ (it.root \/ include_cur_dir(it)) THEN 1 ELSE 0

(* What the left end parses, and how many bytes that consumes.             *)
parse_next_component(path) ==
  LET i == position(path, "/")
  IN  IF i = 0
      THEN [size |-> Len(path), comp |-> parse_single_component(path)]
      ELSE [size |-> i, comp |-> parse_single_component(SubSeq(path, 1, i - 1))]

parse_next_component_back(it) ==
  LET start == len_before_body(it)
      body == SubSeq(it.path, start + 1, Len(it.path))
      comp == SubSeq(body, rposition(body, "/") + 1, Len(body))
  IN  [size |-> Len(comp) + (IF comp = body THEN 0 ELSE 1),
       comp |-> parse_single_component(comp)]

trim_left[it \in Iter] ==
  LET parsed == parse_next_component(it.path)
  IN  IF it.path = <<>> \/ parsed.comp # None THEN it
      ELSE trim_left[[it EXCEPT !.path = Behind(@, parsed.size)]]

trim_right[it \in Iter] ==
  LET parsed == parse_next_component_back(it)
  IN  IF Len(it.path) <= len_before_body(it) \/ parsed.comp # None THEN it
      ELSE trim_right[[it EXCEPT !.path = Before(@, parsed.size)]]

(* Mutant: only the right end is trimmed.                                  *)
as_path_right(it) == IF it.back = Body THEN trim_right[it].path ELSE it.path

as_path(it) ==
  LET left == IF it.front = Body THEN trim_left[it] ELSE it
  IN  IF it.back = Body THEN trim_right[left].path ELSE left.path

Yield(it, comp) == [it |-> it, comp |-> comp]

(* The loops of next and next_back.                                        *)
next[it \in Iter] ==
  LET parsed == parse_next_component(it.path)
      body == [it EXCEPT !.front = Body]
      rest == [it EXCEPT !.path = Behind(@, parsed.size)]
  IN  IF finished(it) THEN Yield(it, None)
      ELSE IF it.front = StartDir
      THEN IF it.root \/ include_cur_dir(it)
           THEN Yield([body EXCEPT !.path = Tail(@)], SubSeq(it.path, 1, 1))
           ELSE next[body]
      ELSE IF it.path = <<>> THEN Yield([it EXCEPT !.front = Done], None)
      ELSE IF parsed.comp # None THEN Yield(rest, parsed.comp) ELSE next[rest]

next_back[it \in Iter] ==
  LET parsed == parse_next_component_back(it)
      rest == [it EXCEPT !.path = Before(@, parsed.size)]
      done == [it EXCEPT !.back = Done]
  IN  IF finished(it) THEN Yield(it, None)
      ELSE IF it.back = StartDir
      THEN IF it.root \/ include_cur_dir(it)
           THEN Yield([done EXCEPT !.path = Before(@, 1)], SubSeq(it.path, 1, 1))
           ELSE Yield(done, None)
      ELSE IF Len(it.path) <= len_before_body(it)
      THEN next_back[[it EXCEPT !.back = StartDir]]
      ELSE IF parsed.comp # None THEN Yield(rest, parsed.comp) ELSE next_back[rest]

-----------------------------------------------------------------------------
(* mod.rs and ancestors.rs                                                 *)

parent(s) ==
  LET last == next_back[Components(s)]
  IN  IF last.comp \in {None, RootDir} THEN {} ELSE {as_path(last.it)}

(* What Ancestors yields: the path, its parent, and so on.                 *)
ancestors[s \in Str] ==
  <<s>> \o (IF parent(s) = {} THEN <<>> ELSE ancestors[CHOOSE p \in parent(s) : TRUE])

file_name(s) ==
  {next_back[Components(s)].comp} \ {None, RootDir, CurDir, ParentDir}

(* Mutant: it is enough that one of the two ends.                          *)
iter_after_either(step, iter, prefix) ==
  LET After[i \in Iter, p \in Iter] ==
        IF None \in {step[i].comp, step[p].comp} THEN {i}
        ELSE IF step[i].comp # step[p].comp THEN {}
        ELSE After[step[i].it, step[p].it]
  IN  After[iter, prefix]

(* step is next, or next_back for the reversed iterators of ends_with.     *)
iter_after(step, iter, prefix) ==
  LET After[i \in Iter, p \in Iter] ==
        IF step[p].comp = None THEN {i}
        ELSE IF step[i].comp # step[p].comp THEN {}
        ELSE After[step[i].it, step[p].it]
  IN  After[iter, prefix]

strip_prefix(s, base) ==
  {as_path(it) : it \in iter_after(next, Components(s), Components(base))}

starts_with(s, base) ==
  iter_after(next, Components(s), Components(base)) # {}

ends_with(s, child) ==
  iter_after(next_back, Components(s), Components(child)) # {}

(* The name up to its last dot, and what is behind it; a name without a    *)
(* dot, or with one in front only, is all stem.  (The code's case "..":    *)
(* file_name never gives it.)                                              *)
rsplit_file_at_dot(file) ==
  LET i == rposition(file, ".")
  IN  IF i <= 1 THEN [stem |-> file, extension |-> {}]
      ELSE [stem |-> SubSeq(file, 1, i - 1), extension |-> {Behind(file, i)}]

file_stem(s) == {rsplit_file_at_dot(name).stem : name \in file_name(s)}

extension(s) == UNION {rsplit_file_at_dot(name).extension : name \in file_name(s)}

(* A str can be cut behind its n-th byte; cutting it elsewhere panics.     *)
IsBoundary(s, n) == n < Len(s) => s[n + 1] # "v"
IsStart(byte) == byte # "v"

(* Mutant: a leading dot ends the prefix.                                  *)
split_file_at_dot_leading(file) ==
  LET i == position(SelectSeq(file, IsStart), ".")
  IN  IF i = 0 THEN {file} ELSE {SubSeq(file, 1, i - 1)}

(* The name up to its first dot but for a leading one; {}: panics.  The    *)
(* dot is counted in characters and the name is cut at that many bytes.    *)
split_file_at_dot(file) ==
  LET i == position(SelectSeq(Tail(file), IsStart), ".")
  IN  IF ~IsBoundary(file, 1) THEN {}
      ELSE IF i = 0 THEN {file}
      ELSE {before \in {SubSeq(file, 1, i)} : IsBoundary(file, i) /\ IsBoundary(file, i + 1)}

file_prefix(s) == UNION {split_file_at_dot(name) : name \in file_name(s)}

-----------------------------------------------------------------------------
(* pathbuf.rs, and the methods of Path that use it.                        *)

(* Mutant: the separator is overwritten.                                   *)
push_overwrites(buf, path) ==
  IF has_physical_root(path) THEN path
  ELSE IF buf # <<>> /\ IsSep(buf[Len(buf)]) THEN Before(buf, 1) \o path
  ELSE buf \o path

(* An absolute path replaces the buffer.  The separator is added behind a  *)
(* separator, and only there.                                              *)
push(buf, path) ==
  IF has_physical_root(path) THEN path
  ELSE IF buf # <<>> /\ IsSep(buf[Len(buf)]) THEN buf \o <<"/">> \o path
  ELSE buf \o path

join(s, path) == push(s, path)

(* Mutants: the length of the parent is counted in characters; the last    *)
(* component is cut off and its separator is kept.                         *)
pop_by_chars(buf) ==
  IF parent(buf) = {} THEN [popped |-> FALSE, buf |-> buf]
  ELSE [popped |-> TRUE,
        buf |-> SubSeq(buf, 1, Len(SelectSeq(CHOOSE p \in parent(buf) : TRUE, IsStart)))]

pop_keeps_separator(buf) ==
  IF parent(buf) = {} THEN [popped |-> FALSE, buf |-> buf]
  ELSE [popped |-> TRUE,
        buf |-> SubSeq(buf, 1, rposition(buf, "/"))]

pop(buf) ==
  IF parent(buf) = {} THEN [popped |-> FALSE, buf |-> buf]
  ELSE [popped |-> TRUE,
        buf |-> SubSeq(buf, 1, Len(CHOOSE p \in parent(buf) : TRUE))]

set_file_name(buf, name) ==
  push(IF file_name(buf) = {} THEN buf ELSE pop(buf).buf, name)

(* Where the file stem ends, counted in bytes from the start of the path.  *)
EndOfStem(s, name) ==
  Len(trim_right[Components(s)].path) - Len(name) + Len(rsplit_file_at_dot(name).stem)

(* Mutant: the dot of the old extension is not cut off.                    *)
set_extension_keeps_dot(buf, new) ==
  {SubSeq(buf, 1, EndOfStem(buf, name) + (IF extension(buf) = {} THEN 0 ELSE 1))
     \o (IF new = <<>> THEN <<>> ELSE <<".">> \o new) :
     name \in file_name(buf)}

(* {}: returns false and leaves the buffer as it is.                       *)
set_extension(buf, new) ==
  {SubSeq(buf, 1, EndOfStem(buf, name)) \o (IF new = <<>> THEN <<>> ELSE <<".">> \o new) :
     name \in file_name(buf)}

(* As many bytes as the extension has are cut off the end of the path,     *)
(* which a trailing separator may put inside of a character.  {}: panics.  *)
with_extension(s, new) ==
  LET size == IF extension(s) = {} THEN 0 ELSE Len(CHOOSE e \in extension(s) : TRUE)
      slice == Before(s, size)
  IN  IF ~IsBoundary(s, Len(slice)) THEN {}
      ELSE IF set_extension(slice, new) = {} THEN {slice} ELSE set_extension(slice, new)

-----------------------------------------------------------------------------
(* Reference: what a path means.                                           *)

(* The texts between the separators.                                       *)
Words(s) ==
  LET words[n \in 0..Len(s)] ==
        IF n = 0 THEN <<<<>>>>
        ELSE IF IsSep(s[n]) THEN Append(words[n - 1], <<>>)
        ELSE [words[n - 1] EXCEPT ![Len(words[n - 1])] = Append(@, s[n])]
  IN  words[Len(s)]

IsPart(word) == word \notin {<<>>, CurDir}

(* The root or a leading ".", and the words that are neither empty nor ".". *)
Parts(s) ==
  (IF has_physical_root(s) THEN <<RootDir>>
   ELSE IF Words(s)[1] = CurDir THEN <<CurDir>> ELSE <<>>)
  \o SelectSeq(Words(s), IsPart)

=============================================================================
