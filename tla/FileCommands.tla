---------------------------- MODULE FileCommands ----------------------------
(***************************************************************************)
(* The commands of the command line interface that work on files: r, cp,   *)
(* rm, mkdir, cd and ls of system/cli/commands/vfs.c, with what they call  *)
(* in system/vfs/vfs_util.c (vfs_is_dir, vfs_unlink_recursive) and         *)
(* system/cwd/cwd.c (chdir).  The CLI task runs one command at a time; a   *)
(* behaviour is one command on some tree of directories and files.  The    *)
(* card can be pulled at any time, so every call of the VFS may fail.      *)
(*                                                                         *)
(* A path is the sequence of names below the mount point, and <<>> is the  *)
(* mount point's own directory.                                            *)
(***************************************************************************)
EXTENDS Naturals, Sequences, SequencesExt, FiniteSets

CONSTANTS
  Names,      \* the names of directory entries
  Depth,      \* the longest path
  MaxSize,    \* the longest file, in work areas
  MaxMounts   \* how many file systems are mounted

CommandsAssumption == {Depth, MaxSize, MaxMounts} \subseteq Nat

Commands == {"r", "cp", "rm", "rm -r", "mkdir", "cd", "ls", "ls -mp"}
TreePaths == SeqOf(Names, Depth)

VARIABLES
  cmd, arg, dst,   \* the command and its arguments
  slash,           \* rm -r: whether its argument ends in a slash
  dirs, size,      \* the tree: its directories, and the sizes of its files
  before,          \* the tree when the command was entered
  open,            \* what the command has open: "in", "out", "dir", "mount"
  step, ret,       \* where it is, and what it returned
  at, seg,         \* rm -r: path_buf and seg, the first subdirectory found
  unread,          \* the entries that readdir has not returned yet
  left,            \* r, cp: what is left to read; ls -mp: the mounts left
  piece,           \* cp: what it read last
  short, lost,     \* cp: a write was cut short; closing the copy failed
  wd               \* the working directory in a set; {} for none

args == <<cmd, arg, dst, slash, before>>
tree == <<dirs, size>>
walk == <<at, seg, unread>>
copy == <<left, piece, short, lost>>
commandVars == <<args, tree, open, step, ret, walk, copy, wd>>
-----------------------------------------------------------------------------
(* The file system, as FatFs behaves: f_unlink removes a file or an empty  *)
(* directory but never the root, and a file that is open for writing, or   *)
(* one to be opened for writing, has no other user.                        *)

Entries == dirs \cup DOMAIN size
Children(p) == {n \in Names : Append(p, n) \in Entries}
Under(p) == {q \in TreePaths : IsPrefix(p, q)}

Results == {"ok", "error"}

f_unlink(p, r) ==
  \/ /\ r = "ok" /\ p # <<>> /\ p \in Entries /\ Children(p) = {}
     /\ dirs' = dirs \ {p}
     /\ size' = [q \in DOMAIN size \ {p} |-> size[q]]
  \/ r = "error" /\ UNCHANGED tree

Creatable(p) == p # <<>> /\ p \notin dirs /\ Front(p) \in dirs

\* O_CREAT | O_TRUNC; an open that fails may already have made the file.
Create(p) == size' = [q \in DOMAIN size \cup {p} |-> IF q = p THEN 0 ELSE size[q]]
-----------------------------------------------------------------------------
Trees == {D \in SUBSET TreePaths : <<>> \in D /\ \A p \in D : Prefixes(p) \subseteq D}

\* Only the file that is read needs a size.
Init ==
  /\ cmd \in Commands /\ arg \in TreePaths
  /\ dst \in IF cmd = "cp" THEN TreePaths ELSE {<<>>}
  /\ slash \in IF cmd = "rm -r" THEN BOOLEAN ELSE {FALSE}
  /\ dirs \in Trees
  /\ \E F \in SUBSET {p \in TreePaths \ dirs : Front(p) \in dirs} :
       \E s \in IF cmd \in {"r", "cp"} THEN 0..MaxSize ELSE {0} :
         size = [p \in F |-> IF p = arg THEN s ELSE 0]
  /\ before = tree
  /\ open = {} /\ step = "entered" /\ ret = "none"
  /\ at = arg /\ seg = <<>> /\ unread = {}
  /\ left \in IF cmd \in {"r", "ls -mp"} THEN 0..MaxMounts ELSE {0}
  /\ piece = 0 /\ short = FALSE /\ lost = FALSE /\ wd = {}

Goto(s) == step' = s /\ ret' = ret
Return(r) == step' = "returned" /\ ret' = r
-----------------------------------------------------------------------------
(* r: at most "left" lines, and no more than the file has.                 *)

ROpen ==
  /\ cmd = "r" /\ step = "entered"
  /\ \/ arg \in DOMAIN size /\ open' = {"in"} /\ Goto("seek")
     \/ open' = {} /\ Return("error")
  /\ UNCHANGED <<args, tree, walk, copy, wd>>

RSeek ==
  /\ step = "seek"
  /\ \/ open' = open /\ Goto("line")
     \/ open' = {} /\ Return("error")
  /\ UNCHANGED <<args, tree, walk, copy, wd>>

\* "piece" counts the lines that have been read.
RLine ==
  /\ step = "line"
  /\ \/ left > 0 /\ piece < size[arg]
        /\ left' = left - 1 /\ piece' = piece + 1 /\ UNCHANGED open /\ Goto("line")
     \/ left > 0 /\ open' = {} /\ Return("error") /\ UNCHANGED <<left, piece>>
     \/ (left = 0 \/ piece = size[arg]) /\ open' = {} /\ Return("ok") /\ UNCHANGED <<left, piece>>
  /\ UNCHANGED <<args, tree, walk, short, lost, wd>>
-----------------------------------------------------------------------------
(* cp                                                                      *)

CpOpen ==
  /\ cmd = "cp" /\ step = "entered"
  /\ \/ arg \in DOMAIN size /\ open' = {"in"} /\ Goto("stat")
     \/ open' = {} /\ Return("error")
  /\ UNCHANGED <<args, tree, walk, copy, wd>>

CpStat ==
  /\ step = "stat"
  /\ \/ open' = open /\ Goto("create")
     \/ open' = {} /\ Return("error")
  /\ UNCHANGED <<args, tree, walk, copy, wd>>

\* A plausible mistake: the source is not closed when the copy cannot be opened.
CpCreateKeepsIn ==
  /\ step = "create"
  /\ \/ Creatable(dst) /\ dst # arg /\ Create(dst) /\ open' = {"in", "out"} /\ Goto("read")
        /\ left' = size[arg]
     \/ /\ UNCHANGED <<open, left>> /\ Return("error")
        /\ UNCHANGED size \/ (Creatable(dst) /\ dst # arg /\ Create(dst))
  /\ UNCHANGED <<args, dirs, walk, piece, short, lost, wd>>

CpCreate ==
  /\ step = "create"
  /\ \/ Creatable(dst) /\ dst # arg /\ Create(dst) /\ open' = {"in", "out"} /\ Goto("read")
        /\ left' = size[arg]
     \/ /\ open' = {} /\ UNCHANGED left /\ Return("error")
        /\ UNCHANGED size \/ (Creatable(dst) /\ dst # arg /\ Create(dst))
  /\ UNCHANGED <<args, dirs, walk, piece, short, lost, wd>>

\* Closing the copy writes its directory entry; that may fail, and nobody looks.
CloseBoth(r) ==
  /\ open' = {} /\ Return(r)
  /\ \/ UNCHANGED <<size, lost>>
     \/ size' = [size EXCEPT ![dst] = 0] /\ lost' = TRUE

CpRead ==
  /\ step = "read"
  /\ \/ /\ piece' = IF left = 0 THEN 0 ELSE 1
        /\ left' = left - piece' /\ Goto("write") /\ UNCHANGED <<open, size, lost>>
     \/ CloseBoth("error") /\ UNCHANGED <<left, piece>>
  /\ UNCHANGED <<args, dirs, walk, short, wd>>

\* A write may be cut short when the volume is full; the loop goes on.  The last
\* write is one of no bytes.
CpWrite ==
  /\ step = "write"
  /\ \/ \E n \in 0..piece :
          /\ short' = (short \/ n < piece)
          /\ IF piece > 0
             THEN size' = [size EXCEPT ![dst] = @ + n] /\ Goto("read") /\ UNCHANGED <<open, lost>>
             ELSE CloseBoth("ok")
     \/ CloseBoth("error") /\ UNCHANGED short
  /\ UNCHANGED <<args, dirs, walk, left, piece, wd>>
-----------------------------------------------------------------------------
(* rm, mkdir, cd                                                           *)

Rm ==
  /\ cmd = "rm" /\ step = "entered"
  /\ \E r \in Results : f_unlink(arg, r) /\ Return(r)
  /\ UNCHANGED <<args, open, walk, copy, wd>>

Mkdir ==
  /\ cmd = "mkdir" /\ step = "entered"
  /\ \/ Creatable(arg) /\ arg \notin DOMAIN size /\ dirs' = dirs \cup {arg} /\ Return("ok")
     \/ UNCHANGED dirs /\ Return("error")
  /\ UNCHANGED <<args, size, open, walk, copy, wd>>

\* chdir opens the directory to see that it is one, and closes it.
Cd ==
  /\ cmd = "cd" /\ step = "entered"
  /\ \/ arg \in dirs /\ open' = {"dir"} /\ Goto("found")
     \/ open' = {} /\ Return("error")
  /\ UNCHANGED <<args, tree, walk, copy, wd>>

chdir ==
  /\ step = "found" /\ open' = {}
  /\ \/ wd' = {arg} /\ Return("ok")
     \/ wd' = wd /\ Return("error")
  /\ UNCHANGED <<args, tree, walk, copy>>
-----------------------------------------------------------------------------
(* vfs_unlink_recursive                                                    *)

\* vfs_is_dir fails for the mount point: f_stat refuses the root of a volume.  A
\* trailing slash leaves the question out.
IsDir ==
  /\ cmd = "rm -r" /\ step = "entered"
  /\ \/ slash /\ Goto("head") /\ UNCHANGED tree
     \/ ~slash /\ arg \in dirs \ {<<>>} /\ Goto("head") /\ UNCHANGED tree
     \/ ~slash /\ arg \in DOMAIN size /\ \E r \in Results : f_unlink(arg, r) /\ Return(r)
     \/ ~slash /\ Return("error") /\ UNCHANGED tree
  /\ UNCHANGED <<args, open, walk, copy, wd>>

(* Plausible mistakes in the steps below. *)

\* The loop ends before the argument itself is removed.
OpenNextTooFew ==
  /\ cmd = "rm -r" /\ step = "head"
  /\ \/ Len(at) <= Len(arg) /\ seg = <<>> /\ Return("ok") /\ UNCHANGED <<open, walk>>
     \/ /\ Len(at) > Len(arg) \/ seg # <<>>
        /\ at' = at \o seg /\ seg' = <<>>
        /\ \/ at' \in dirs /\ open' = {"dir"} /\ unread' = Children(at') /\ Goto("next")
           \/ UNCHANGED <<open, unread>> /\ Return("error")
  /\ UNCHANGED <<args, tree, copy, wd>>

\* Until path_buf is shorter than the argument, open the next directory.
OpenNext ==
  /\ cmd = "rm -r" /\ step = "head"
  /\ \/ Len(at) < Len(arg) /\ Return("ok") /\ UNCHANGED <<open, walk>>
     \/ /\ Len(at) >= Len(arg)
        /\ at' = at \o seg /\ seg' = <<>>
        /\ \/ at' \in dirs /\ open' = {"dir"} /\ unread' = Children(at') /\ Goto("next")
           \/ UNCHANGED <<open, unread>> /\ Return("error")
  /\ UNCHANGED <<args, tree, copy, wd>>

\* One entry: a file is removed, the first directory is remembered.  The path may be
\* too long for the buffer, or the card gone.
Entry ==
  /\ cmd = "rm -r" /\ step = "next"
  /\ \E n \in unread :
       LET p == Append(at, n)
       IN \/ /\ p \in dirs /\ seg' = (IF seg = <<>> THEN <<n>> ELSE seg)
             /\ unread' = unread \ {n} /\ Goto("next") /\ UNCHANGED <<tree, open>>
          \/ /\ p \in DOMAIN size /\ f_unlink(p, "ok")
             /\ unread' = unread \ {n} /\ Goto("next") /\ UNCHANGED <<seg, open>>
          \/ open' = {} /\ Return("error") /\ UNCHANGED <<tree, seg, unread>>
  /\ UNCHANGED <<args, at, copy, wd>>

\* An error of readdir looks like the end of the directory.
LastEntry ==
  /\ cmd = "rm -r" /\ step = "next"
  /\ open' = {} /\ Goto(IF seg = <<>> THEN "empty" ELSE "head")
  /\ UNCHANGED <<args, tree, walk, copy, wd>>

\* A plausible mistake: a directory that cannot be removed is opened again.
RmdirAgain ==
  /\ step = "empty"
  /\ \E r \in Results : f_unlink(at, r) /\ Goto("head")
                      /\ at' = (IF r = "ok" THEN Front(at) ELSE at)
  /\ UNCHANGED <<args, open, seg, unread, copy, wd>>

Rmdir ==
  /\ step = "empty"
  /\ \E r \in Results : f_unlink(at, r) /\ IF r = "ok" THEN at' = Front(at) /\ Goto("head")
                                           ELSE at' = at /\ Return("error")
  /\ UNCHANGED <<args, open, seg, unread, copy, wd>>
-----------------------------------------------------------------------------
(* ls; its loop ends at the first error, and its end is the same then.     *)

LsOpen ==
  /\ cmd = "ls" /\ step = "entered"
  /\ \/ arg \in dirs /\ open' = {"dir"} /\ unread' = Children(arg) /\ Goto("next")
     \/ UNCHANGED <<open, unread>> /\ Return("error")
  /\ UNCHANGED <<args, tree, at, seg, copy, wd>>

LsEntry ==
  /\ cmd = "ls" /\ step = "next"
  /\ \E n \in unread : unread' = unread \ {n}
  /\ UNCHANGED <<args, tree, open, step, ret, at, seg, copy, wd>>

LsClose ==
  /\ cmd = "ls" /\ step = "next"
  /\ open' = {} /\ Return("ok")
  /\ UNCHANGED <<args, tree, walk, copy, wd>>

\* Each round of vfs_iterate_mount_dirs closes the directory it opened last.  When
\* statvfs fails the function returns with that directory open.
list_mountpoints ==
  /\ cmd = "ls -mp" /\ step \in {"entered", "mount"}
  /\ \/ left = 0 /\ open' = {} /\ left' = left /\ Return("ok")
     \/ /\ left > 0 /\ open' = {"mount"} /\ left' = left - 1
        /\ Goto("mount") \/ Return("error")
  /\ UNCHANGED <<args, tree, walk, piece, short, lost, wd>>
-----------------------------------------------------------------------------
Next ==
  \/ ROpen \/ RSeek \/ RLine
  \/ CpOpen \/ CpStat \/ CpCreate \/ CpRead \/ CpWrite
  \/ Rm \/ Mkdir \/ Cd \/ chdir
  \/ IsDir \/ OpenNext \/ Entry \/ LastEntry \/ Rmdir
  \/ LsOpen \/ LsEntry \/ LsClose \/ list_mountpoints

\* The CLI task goes on as long as it has a step.
Spec == Init /\ [][Next]_commandVars /\ WF_commandVars(Next)
-----------------------------------------------------------------------------
(* Properties.                                                             *)

Done(r) == step = "returned" /\ ret = r

\* Every way out of a command (vfs.c:72-607, vfs_util.c:214-300) closes the files and
\* directories it opened: a descriptor, or a reference to the mount, that stays keeps
\* the card from ever being unmounted without force.  list_mountpoints (vfs.c:457)
\* does leave one when a statvfs fails.
NothingOpen ==
  step = "returned" => open = IF cmd = "ls -mp" /\ ret = "error" THEN {"mount"} ELSE {}

\* vfs_util.c:214-300: rm -r that reports success has removed the argument and all
\* beneath it, whatever order readdir returns the entries in; the mount point itself
\* never goes, so emptying it always ends in an error.
Removed == cmd = "rm -r" /\ Done("ok") => Under(arg) \cap Entries = {} /\ arg # <<>>

\* What a command may change while it runs: rm and rm -r what their argument names, cp
\* its destination, mkdir the new directory, and nothing else in the tree.
Named == CASE cmd = "rm -r" -> Under(arg)
           [] cmd \in {"rm", "mkdir"} -> {arg}
           [] cmd = "cp" -> {dst}
           [] OTHER -> {}
OnlyNamed ==
  \A p \in TreePaths \ Named :
    /\ p \in dirs <=> p \in before[1]
    /\ p \in DOMAIN size <=> p \in DOMAIN before[2]
    /\ p \in DOMAIN size => size[p] = before[2][p]

\* vfs.c:178-288: when cp reports "Copied" the copy is as long as the source, unless a
\* write was cut short or closing the copy failed, of which cp takes no notice.
CopiedWhole == cmd = "cp" /\ Done("ok") /\ ~short /\ ~lost => size[dst] = size[arg]

\* vfs.c:72-607: what a command reports as done is done, and it changes only what its
\* arguments name.
CommandsMeant == Removed /\ OnlyNamed /\ CopiedWhole

\* Every command comes back, above all the loop of rm -r, which has no counter.
Returns == <>(step = "returned")
=============================================================================
