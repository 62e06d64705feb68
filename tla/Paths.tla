------------------------------- MODULE Paths -------------------------------
(***************************************************************************)
(* The three functions that tidy a path: normalize_path of system/cwd/     *)
(* cwd.c, which chdir uses, vfs_normalize_path of system/vfs/vfs.c, which  *)
(* the commands ls and r use, and _vfs_prepare_path of system/vfs/         *)
(* vfs_util.c, for rm -r.  The first two work on characters, so paths are  *)
(* sequences of characters here; beside them stands what a path means, the *)
(* sequence of its components.                                             *)
(***************************************************************************)
EXTENDS Naturals, Sequences, FiniteSetsExt, SequencesExt

CONSTANTS
  Letters,      \* the characters that are neither "/" nor "."
  NAME_MAX,     \* VFS_NAME_MAX
  Cwds          \* the working directories

Symbols == {"/", "."} \cup Letters
Error == <<"error">>

\* chdir sets the working directory to "" for the root, and else to what normalize_path
\* returned, which does not end in a slash.
PathsAssumption ==
  /\ NAME_MAX \in Nat /\ Letters \cap {"/", ".", "end", "error"} = {}
  /\ \A c \in Cwds : c # <<>> => c \in Seq(Symbols) /\ c[1] = "/" /\ Last(c) # "/"

VARIABLES path, \* what is typed so far
          cwd,  \* the working directory
          prev  \* the character that lies in front of cwd.c's work area

vars == <<path, cwd, prev>>
-----------------------------------------------------------------------------
(* What a path means.                                                      *)

\* The names between its slashes, with the empty ones.
Fields(p) == FoldLeft(LAMBDA fs, c : IF c = "/" THEN Append(fs, <<>>)
                                     ELSE Append(Front(fs), Append(Last(fs), c)),
                      << <<>> >>, p)

Filled(fs) == FoldLeft(LAMBDA names, f : IF f = <<>> THEN names ELSE Append(names, f),
                       <<>>, fs)
Components(p) == Filled(Fields(p))

Dot == <<".">>
DotDot == <<".", ".">>

\* "." stays where it is, ".." leaves a directory, and the root by nothing.
Follow(dir, f) == IF f = Dot THEN dir
                  ELSE IF f = DotDot THEN SubSeq(dir, 1, Len(dir) - 1)
                  ELSE Append(dir, f)
Reached(names) == FoldLeft(Follow, <<>>, names)
Meaning(p) == Reached(Components(p))

\* Whether ".." leaves the root.
Climbs(p) == \E n \in DOMAIN Components(p) :
  /\ Components(p)[n] = DotDot
  /\ Reached(SubSeq(Components(p), 1, n - 1)) = <<>>

Joined(dir) == FoldLeft(LAMBDA p, f : p \o <<"/">> \o f, <<>>, dir)
Written(dir) == IF dir = <<>> THEN <<"/">> ELSE Joined(dir)
-----------------------------------------------------------------------------
(* cwd.c.  A loop has read the work area up to the place of cpath and      *)
(* tidied what lies in front of it; w is that, and dot, dot_dot and        *)
(* slash_slash take it with the character at cpath, which goes with what   *)
(* is cut.                                                                 *)

\* while ((cpath - 1 >= rpath) && (*--cpath != '/'));
Back(w, i) == Max({1} \cup {k \in 1..(i - 1) : w[k] = "/"})

dot(w) == SubSeq(w, 1, Back(w, Len(w)))
dot_dot(w) == SubSeq(w, 1, Back(w, Back(w, Len(w))))

\* The first loop: slash, one and two say whether the component that is read may be
\* empty, "." or "..".
ReadDots(s, c) ==
  LET w == Append(s.w, c)
  IN CASE c = "." -> [w |-> w, slash |-> s.slash,
                      one |-> s.slash /\ ~(s.slash /\ s.one), two |-> s.slash /\ s.one]
       [] c = "/" -> [w |-> IF s.two THEN dot_dot(w) ELSE IF s.one THEN dot(w) ELSE w,
                      slash |-> TRUE, one |-> FALSE, two |-> FALSE]
       [] OTHER   -> [w |-> w, slash |-> FALSE, one |-> FALSE, two |-> FALSE]

Dots(w) == FoldLeft(ReadDots, [w |-> <<>>, slash |-> FALSE, one |-> FALSE, two |-> FALSE], w)

\* Its end, with cpath at the end of the string.
LastDots(s) == LET w == Append(s.w, "end")
               IN IF s.two THEN dot_dot(w) ELSE IF s.one THEN dot(w) ELSE s.w

\* The second loop.
ReadSlashes(s, c) == [w |-> IF c = "/" /\ s.slash THEN dot(Append(s.w, c)) ELSE Append(s.w, c),
                      slash |-> c = "/"]

Slashes(w, slash) == FoldLeft(ReadSlashes, [w |-> <<>>, slash |-> slash], w).w

\* With an empty working directory the character in front of the work area decides
\* whether a slash is put before the path.
normalize_path(from, dir, front) ==
  LET last == IF dir = <<>> THEN front ELSE Last(dir)
      start == IF from # <<>> /\ from[1] = "/" THEN from
               ELSE dir \o (IF last = "/" THEN <<>> ELSE <<"/">>) \o from
      d == Dots(start)
      s == Slashes(LastDots(d), d.slash)
      w == IF Len(s) > 1 /\ Last(s) = "/" THEN Front(s) ELSE s
  IN IF Len(w) > NAME_MAX THEN Error ELSE w
-----------------------------------------------------------------------------
(* vfs_normalize_path(buf, p, strlen(p) + 1).                              *)

At(p, i) == IF i > Len(p) THEN "end" ELSE p[i]
Ends(p, i) == At(p, i) \in {"/", "end"}

\* The first place from i on that holds no slash, and the first that ends a name.
PastSlashes(p, i) == Min({k \in i..(Len(p) + 1) : At(p, k) # "/"})
NameEnd(p, i) == Min({k \in i..(Len(p) + 1) : Ends(p, k)})

\* A plausible mistake: the slash of the last component stays.
UpToSlash(buf) == SubSeq(buf, 1, Max({0} \cup {k \in DOMAIN buf : buf[k] = "/"}))

\* Without its last component.
Up(buf) == SubSeq(buf, 1, Max({0} \cup {k \in DOMAIN buf : buf[k] = "/"}) - 1)

\* An iteration of the loop, from position at on, with what it has written and the
\* components counted.
Refused(p) == [at |-> Len(p) + 1, buf |-> Error, n |-> 0]
NextComponent(p, s) ==
  LET Room(b) == Len(b) < Len(p) + 1
      j == PastSlashes(p, s.at)
      k == IF At(p, j) = "." THEN j + 1 ELSE j
      e == NameEnd(p, k)
      b == Append(s.buf, "/") \o SubSeq(p, k, e - 1)
  IN CASE At(p, s.at) = "end" -> s
       [] At(p, s.at) # "end" /\ k > j /\ Ends(p, k) -> [s EXCEPT !.at = k]
       [] At(p, s.at) # "end" /\ k > j /\ At(p, k) = "." /\ Ends(p, k + 1) ->
            IF s.buf = <<>> THEN Refused(p)
            ELSE [at |-> k + 1, buf |-> Up(s.buf), n |-> s.n - 1]
       [] OTHER ->
            IF ~Room(Append(s.buf, "/")) THEN Refused(p)
            ELSE IF At(p, k) = "end" THEN [s EXCEPT !.at = k, !.buf = Append(@, "/")]
            ELSE IF ~Room(b) THEN Refused(p)
            ELSE [at |-> e, buf |-> b, n |-> s.n + 1]

\* Each iteration reads a character at least: there are no more of them than characters.
vfs_normalize_path(p) ==
  LET s == FoldLeft(LAMBDA t, c : NextComponent(p, t), [at |-> 1, buf |-> <<>>, n |-> 0], p)
  IN [buf |-> s.buf, n |-> IF s.buf # Error /\ Len(s.buf) = 1 THEN 1 ELSE s.n]
-----------------------------------------------------------------------------
(* _vfs_prepare_path moves each segment to the left, in the same buffer.   *)

NextSegment(p, s) ==
  LET b == PastSlashes(p, s.at)
      e == NameEnd(p, b)
  IN IF b > Len(p) THEN [s EXCEPT !.at = b]
     ELSE [at |-> e, done |-> s.done \o SubSeq(p, b, e - 1)
                                     \o (IF e > Len(p) THEN <<>> ELSE <<"/">>)]

_vfs_prepare_path(p) ==
  FoldLeft(LAMBDA t, c : NextSegment(p, t), [at |-> 1, done |-> <<"/">>], p).done
-----------------------------------------------------------------------------
Init == path = <<>> /\ cwd \in Cwds /\ prev \in Symbols

Type(c) == Len(path) < NAME_MAX /\ path' = Append(path, c) /\ UNCHANGED <<cwd, prev>>

\* The next command has another path.
Enter == path # <<>> /\ path' = <<>> /\ UNCHANGED <<cwd, prev>>

Next == Enter \/ \E c \in Symbols : Type(c)

Spec == Init /\ [][Next]_vars
-----------------------------------------------------------------------------
(* Properties.                                                             *)

Absolute(p) == p # <<>> /\ p[1] = "/"
NoDouble(p) == \A i \in 2..Len(p) : ~(p[i - 1] = "/" /\ p[i] = "/")
FromCwd(p) == IF Absolute(p) THEN p ELSE cwd \o <<"/">> \o p

\* What cwd.c gets wrong: a component of three or more dots, and ".." behind a
\* double slash; and it reads what lies in front of the work area.
Misread ==
  LET fs == Fields(FromCwd(path))
  IN \/ \E f \in Range(fs) : Len(f) > 2 /\ Range(f) = {"."}
     \/ \E j \in DOMAIN fs : \E i \in 2..(j - 1) : fs[i] = <<>> /\ fs[j] = DotDot
     \/ cwd = <<>> /\ ~Absolute(path) /\ prev = "/"

\* cwd.c:182-291: chdir goes where the path leads, whatever dots and slashes it has,
\* unless the result is too long.
CwdMeant ==
  ~Misread =>
    LET w == Written(Meaning(FromCwd(path)))
    IN normalize_path(path, cwd, prev) = IF Len(w) > NAME_MAX THEN Error ELSE w

\* vfs.h:1130-1148: an absolute path loses its "." and ".." and double slashes and
\* keeps its meaning, and is refused exactly if it leaves the root.  The result
\* counts its components ("/" for one).  Names that begin with a dot lose the dot.
ListMeant ==
  Absolute(path) /\ (\A f \in Range(Components(path)) : f[1] = "." => f \in {Dot, DotDot}) =>
    LET v == vfs_normalize_path(path)
    IN IF Climbs(path) THEN v.buf = Error
       ELSE /\ Components(v.buf) = Meaning(path) /\ NoDouble(v.buf)
            /\ v.n = IF v.buf = <<"/">> THEN 1 ELSE Len(Meaning(path))

\* vfs_util.c:181: only additional slashes are removed.
SlashesOnly ==
  Absolute(path) =>
    LET p == _vfs_prepare_path(path)
    IN /\ Components(p) = Components(path)
       /\ Last(p) = "/" <=> Last(path) = "/"
       /\ NoDouble(p)
=============================================================================
