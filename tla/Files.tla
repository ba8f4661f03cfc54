------------------------------- MODULE Files -------------------------------
(***************************************************************************)
(* The initial RAM file system and the descriptors of processes: the boot  *)
(* turns an archive into an immutable index, path resolution walks it, and *)
(* open, read, getdents64, chdir, fork and exit work on it.  A process has *)
(* one thread; a system call is preempted between the process table's      *)
(* critical sections, where other processes run.                           *)
(*                                                                         *)
(* A path component is a number: a name (its rank in byte order), or the   *)
(* empty component, "." or "..".  A path is the sequence of its components *)
(* as split at "/", so "/a/" is <<empty, a, empty>>; a canonical path has  *)
(* names only, and the root is <<>>.                                       *)
(***************************************************************************)
EXTENDS Integers, Sequences, FiniteSets, SequencesExt, FiniteSetsExt, Functions, TLC

CONSTANTS
  Archives,    \* cpio archives: sequences of [name, type, nlink, data]
  RunArchives, \* bound: the archives on which processes run
  Inputs,      \* paths as a process may write them
  Passed,      \* bound: the ones that processes pass
  Flags,       \* the flag sets of open
  Counts,      \* the lengths of reads
  PATH_MAX,    \* GENRT_PATH_MAX, in bytes; a name is one byte
  MAX_USER_COPY,
  Fd,          \* the descriptors after stdio
  Procs, First,
  MaxCalls,    \* bound: system calls
  None

VARIABLES
  archive,     \* what the loader left in memory
  ramfs,       \* the mounted index [files, dirs], None, or an error
  files,       \* per process: [fds, cwd], or None
  work,        \* per process: the read that is between its sections, or None
  ret,         \* per process: the last result, "ok" or an errno
  got,         \* history: per process and descriptor, what reads returned
  calls

vars == <<archive, ramfs, files, work, ret, got, calls>>

empty == 0
dot == -1
dotdot == -2
init_name == 1
InitPath == <<init_name>>
error(e) == [err |-> e]
is_err(x) == x # None /\ "err" \in DOMAIN x

----------------------------------------------------------------------------
(* Mounting.                                                               *)

\* canonical_archive_path.
canonical(name) == name # <<>> /\ \A i \in DOMAIN name : name[i] > 0

\* mount_from_cpio_newc, the loop over the archive.
collect(list) ==
  FoldLeft(LAMBDA acc, e :
      IF is_err(acc) THEN acc
      ELSE IF e.nlink > 1 THEN error("UnsupportedFileType")
      ELSE IF ~canonical(e.name) THEN error("InvalidPath")
      ELSE IF e.name \in Range(acc.dirs) \cup {f.path : f \in Range(acc.files)} THEN error("DuplicatePath")
      ELSE CASE e.type = "file" -> [acc EXCEPT !.files = Append(@, [path |-> e.name, data |-> e.data])]
             [] e.type = "dir" -> [acc EXCEPT !.dirs = Append(@, e.name)]
             [] OTHER -> error("UnsupportedFileType"),
    [files |-> <<>>, dirs |-> <<>>], list)

path_less(a, b) ==
  \/ \E i \in DOMAIN a \cap DOMAIN b : a[i] < b[i] /\ \A j \in 1..(i - 1) : a[j] = b[j]
  \/ IsStrictPrefix(a, b)

\* push_parent_dirs.
parents(path) == {SubSeq(path, 1, n) : n \in 0..(Len(path) - 1)}

\* populate_dir_entries: the children of a directory, files and directories, by name.
file_ino(i) == i
dir_ino(i) == 1000 + i
entries_of(dir, fs, ds) ==
  LET child(p) == p # <<>> /\ Front(p) = dir
      all == {[name |-> Last(fs[i].path), kind |-> "File", ino |-> file_ino(i)] :
                i \in {j \in DOMAIN fs : child(fs[j].path)}}
             \cup {[name |-> Last(ds[i]), kind |-> "Directory", ino |-> dir_ino(i)] :
                i \in {j \in DOMAIN ds : child(ds[j])}}
  IN SortSeq(SetToSeq(all), LAMBDA a, b : a.name < b.name)

\* MountedRamfs::new: parents are synthesized, a path is a file or a directory.
new(fs, explicit) ==
  LET sorted == SortSeq(fs, LAMBDA a, b : path_less(a.path, b.path))
      dir_paths == {<<>>} \cup Range(explicit) \cup UNION {parents(d) : d \in Range(explicit)}
                   \cup UNION {parents(f.path) : f \in Range(fs)}
      ds == SortSeq(SetToSeq(dir_paths), path_less)
  IN IF \E f \in Range(fs) : f.path \in dir_paths THEN error("DuplicatePath")
     ELSE [files |-> sorted, dirs |-> [i \in DOMAIN ds |-> [path |-> ds[i], entries |-> entries_of(ds[i], sorted, ds)]]]

mount(list) ==
  LET c == collect(list) IN
  IF list = <<>> THEN error("Parse")
  ELSE IF is_err(c) THEN c
  ELSE IF ~\E f \in Range(c.files) : f.path = InitPath THEN error("MissingInit")
  ELSE new(c.files, c.dirs)

lookup_dir(path) == SelectInSeq(ramfs.dirs, LAMBDA d : d.path = path)
lookup_file(path) == SelectInSeq(ramfs.files, LAMBDA f : f.path = path)
root_dir == lookup_dir(<<>>)

----------------------------------------------------------------------------
(* Path resolution.                                                        *)

dir_node(i) == [kind |-> "Directory", index |-> i]
file_node(i) == [kind |-> "File", index |-> i]
bytes(path) == IF path = <<>> THEN 1 ELSE 2 * Len(path)

\* append_component, then the lookup of what is there.
enter(acc, c) ==
  LET path == Append(acc.path, c) IN
  IF bytes(path) > PATH_MAX THEN error("ENAMETOOLONG")
  ELSE IF lookup_dir(path) # 0
  THEN [path |-> path, dir |-> lookup_dir(path), node |-> dir_node(lookup_dir(path))]
  ELSE IF lookup_file(path) # 0
  THEN [acc EXCEPT !.path = path, !.node = file_node(lookup_file(path))]
  ELSE error("ENOENT")

\* parent_dir and replace_with_dir_path.
ascend(acc) ==
  LET d == IF acc.dir = root_dir THEN root_dir ELSE lookup_dir(Front(ramfs.dirs[acc.dir].path))
  IN [path |-> ramfs.dirs[d].path, dir |-> d, node |-> dir_node(d)]

resolve_lexically(cwd, input) ==
  LET start == IF Len(input) > 1 /\ input[1] = empty THEN <<>> ELSE ramfs.dirs[cwd].path
      path == FoldLeft(LAMBDA p, c : IF c \in {empty, dot} THEN p
                                     ELSE IF c = dotdot THEN (IF p = <<>> THEN p ELSE Front(p)) ELSE Append(p, c),
                       start, input)
  IN IF input = <<empty>> THEN error("ENOENT")
     ELSE IF lookup_dir(path) # 0 THEN [path |-> path, dir |-> lookup_dir(path), node |-> dir_node(lookup_dir(path))]
     ELSE IF lookup_file(path) # 0 THEN [path |-> path, dir |-> root_dir, node |-> file_node(lookup_file(path))]
     ELSE error("ENOENT")
\* resolve_existing_path.
resolve_existing_path(cwd, input) ==
  LET start == IF Len(input) > 1 /\ input[1] = empty THEN root_dir ELSE cwd
      step(acc, c) ==
        IF is_err(acc) \/ c = empty THEN acc
        ELSE IF acc.node.kind # "Directory" THEN error("ENOTDIR")
        ELSE IF c = dot THEN acc ELSE IF c = dotdot THEN ascend(acc) ELSE enter(acc, c)
      end == FoldLeft(step, [path |-> ramfs.dirs[start].path, dir |-> start, node |-> dir_node(start)], input)
      final == SelectSeq(input, LAMBDA c : c # empty)
      requires_directory == Last(input) = empty \/ (final # <<>> /\ Last(final) \in {dot, dotdot})
  IN IF input = <<empty>> THEN error("ENOENT")
     ELSE IF bytes(ramfs.dirs[start].path) > PATH_MAX THEN error("ENAMETOOLONG")
     ELSE IF is_err(end) THEN end
     ELSE IF requires_directory /\ end.node.kind # "Directory" THEN error("ENOTDIR")
     ELSE end

----------------------------------------------------------------------------
(* Descriptors.                                                            *)

NoFds == [fd \in Fd |-> None]
NoGot == [fd \in Fd |-> <<>>]
lowest_free(fds) == {fd \in Fd : fds[fd] = None /\ \A g \in Fd : g < fd => fds[g] # None}
content(h) ==
  IF h.node.kind = "File" THEN ramfs.files[h.node.index].data
  ELSE [i \in DOMAIN ramfs.dirs[h.node.index].entries |-> ramfs.dirs[h.node.index].entries[i].name]

Init ==
  /\ archive \in Archives /\ ramfs = None
  /\ files = [p \in Procs |-> None] /\ work = [p \in Procs |-> None]
  /\ ret = [p \in Procs |-> "ok"] /\ got = [p \in Procs |-> NoGot] /\ calls = 0

\* The boot mounts once and starts the first process in the root directory.
MountFromLoaderRegion ==
  /\ ramfs = None
  /\ ramfs' = mount(archive)
  /\ files' = IF ~is_err(ramfs') /\ archive \in RunArchives
              THEN [files EXCEPT ![First] = [fds |-> NoFds, cwd |-> 1]] ELSE files
  /\ UNCHANGED <<archive, work, ret, got, calls>>

call(p) == calls < MaxCalls /\ calls' = calls + 1 /\ files[p] # None /\ work[p] = None
answer(p, x) == ret' = [ret EXCEPT ![p] = x]
\* A call that fails, or returns without an effect.
fails(p, e) == answer(p, e) /\ UNCHANGED <<files, work, got>>
constants == <<archive, ramfs>>

\* validate_open_flags: the error, or None.
open_flags_error(flags) ==
  IF "unsupported" \in flags THEN "EINVAL"
  ELSE IF flags \cap {"O_CREAT", "O_TRUNC"} # {} THEN "EROFS"
  ELSE IF "O_APPEND" \in flags \/ Cardinality(flags \cap {"O_WRONLY", "O_RDWR"}) = 1 THEN "ENOTSUP"
  ELSE IF {"O_WRONLY", "O_RDWR"} \subseteq flags THEN "EINVAL" ELSE None

\* sys_open with open_ram_file and open_ram_dir.
Open(p, input, flags) ==
  LET target == resolve_existing_path(files[p].cwd, input)
      slots == lowest_free(files[p].fds)
  IN /\ call(p) /\ UNCHANGED constants
     /\ IF open_flags_error(flags) # None THEN fails(p, open_flags_error(flags))
        ELSE IF is_err(target) THEN fails(p, target.err)
        ELSE IF target.node.kind = "File" /\ "O_DIRECTORY" \in flags THEN fails(p, "ENOTDIR")
        ELSE IF slots = {} THEN fails(p, "EMFILE")
        ELSE LET fd == CHOOSE f \in slots : TRUE IN
             /\ files' = [files EXCEPT ![p].fds[fd] = [node |-> target.node, offset |-> 0]]
             /\ got' = [got EXCEPT ![p][fd] = <<>>]
             /\ answer(p, "ok") /\ UNCHANGED work

Close(p, fd) ==
  /\ call(p) /\ UNCHANGED constants
  /\ IF files[p].fds[fd] = None THEN fails(p, "EBADF")
     ELSE /\ files' = [files EXCEPT ![p].fds[fd] = None]
          /\ got' = [got EXCEPT ![p][fd] = <<>>] /\ answer(p, "ok") /\ UNCHANGED work

\* sys_read_file up to the copy: read_slice.
Read(p, fd, count) ==
  LET h == files[p].fds[fd]
      data == content(h)
      end == Min({h.offset + Min({count, MAX_USER_COPY}), Len(data)})
  IN /\ call(p) /\ UNCHANGED constants
     /\ IF h = None THEN fails(p, "EBADF")
        ELSE IF h.node.kind = "Directory" THEN fails(p, "EISDIR")
        ELSE IF h.offset = end THEN fails(p, "ok")
        ELSE /\ work' = [work EXCEPT ![p] = [fd |-> fd, chunk |-> SubSeq(data, h.offset + 1, end)]]
             /\ UNCHANGED <<files, got, ret>>

\* The length of a record of encode_dirent64 varies with the name.
record_len(name) == 1 + (name % 3)
\* The entries of getdents64 that fit in the buffer.
entries_that_fit(h, room) ==
  LET rest == SubSeq(content(h), h.offset + 1, Len(content(h)))
      total(n) == FoldLeft(LAMBDA sum, name : sum + record_len(name), 0, SubSeq(rest, 1, n))
  IN SubSeq(rest, 1, Max({n \in 0..Len(rest) : total(n) <= room}))
\* sys_getdents64 up to the copy: dir_entry_at and encode_dirent64.
Getdents(p, fd, count) ==
  LET h == files[p].fds[fd]
      chunk == entries_that_fit(h, Min({count, MAX_USER_COPY}))
  IN /\ call(p) /\ UNCHANGED constants
     /\ IF h = None THEN fails(p, "EBADF")
        ELSE IF h.node.kind = "File" THEN fails(p, "ENOTDIR")
        ELSE IF h.offset = Len(content(h)) THEN fails(p, "ok")
        ELSE IF chunk = <<>> THEN fails(p, "EINVAL")
        ELSE /\ work' = [work EXCEPT ![p] = [fd |-> fd, chunk |-> chunk]]
             /\ UNCHANGED <<files, got, ret>>

\* copy_to_user faults: nothing else happens.
CopyFaults(p) ==
  /\ work[p] # None
  /\ work' = [work EXCEPT ![p] = None]
  /\ answer(p, "EFAULT") /\ UNCHANGED <<constants, files, got, calls>>
\* copy_to_user succeeds; then advance_read or advance_dir_read, clamped to the end.
CopyAndAdvance(p) ==
  LET w == work[p]
      h == files[p].fds[w.fd]
  IN /\ w # None
     /\ files' = [files EXCEPT ![p].fds[w.fd].offset = Min({@ + Len(w.chunk), Len(content(h))})]
     /\ got' = [got EXCEPT ![p][w.fd] = @ \o w.chunk]
     /\ work' = [work EXCEPT ![p] = None]
     /\ answer(p, "ok") /\ UNCHANGED <<constants, calls>>

ChdirBeforeCheck(p, input) ==
  LET target == resolve_existing_path(files[p].cwd, input) IN
  /\ call(p) /\ UNCHANGED constants
  /\ IF is_err(target) THEN fails(p, target.err)
     ELSE /\ files' = [files EXCEPT ![p].cwd = target.dir]
          /\ answer(p, IF target.node.kind = "File" THEN "ENOTDIR" ELSE "ok") /\ UNCHANGED <<work, got>>
\* sys_chdir.
Chdir(p, input) ==
  LET target == resolve_existing_path(files[p].cwd, input) IN
  /\ call(p) /\ UNCHANGED constants
  /\ IF is_err(target) THEN fails(p, target.err)
     ELSE IF target.node.kind = "File" THEN fails(p, "ENOTDIR")
     ELSE /\ files' = [files EXCEPT ![p].cwd = target.node.index]
          /\ answer(p, "ok") /\ UNCHANGED <<work, got>>

\* fork_snapshot_current: the child has copies of the descriptors, not shares.
Fork(p, q) ==
  /\ call(p) /\ UNCHANGED constants /\ files[q] = None
  /\ files' = [files EXCEPT ![q] = files[p]] /\ got' = [got EXCEPT ![q] = got[p]]
  /\ ret' = [ret EXCEPT ![p] = "ok", ![q] = "ok"] /\ UNCHANGED work
\* The exit of a process: ProcessFileState::close_all.
Exit(p) ==
  /\ call(p) /\ UNCHANGED constants
  /\ files' = [files EXCEPT ![p] = None] /\ got' = [got EXCEPT ![p] = NoGot]
  /\ answer(p, "ok") /\ UNCHANGED work

Next ==
  \/ MountFromLoaderRegion
  \/ \E p \in Procs :
       \/ \E input \in Passed : Chdir(p, input) \/ \E flags \in Flags : Open(p, input, flags)
       \/ \E fd \in Fd : Close(p, fd) \/ \E count \in Counts : Read(p, fd, count) \/ Getdents(p, fd, count)
       \/ CopyFaults(p) \/ CopyAndAdvance(p)
       \/ \E q \in Procs \ {p} : Fork(p, q)
       \/ Exit(p)

Spec == Init /\ [][Next]_vars

----------------------------------------------------------------------------
(* Properties.                                                             *)

mounted == ramfs # None /\ ~is_err(ramfs)

\* An accepted archive becomes a tree: every file and directory but the root is
\* listed once, in the directory above it, under a name and an inode of its own; and
\* it is accepted exactly if its paths are canonical, distinct and none lies below a
\* file, and /init is a file.
IndexIsTree ==
  ramfs # None /\ calls = 0 =>
    LET named(type) == {e.name : e \in {x \in Range(archive) : x.type = type}}
        all == {e.name : e \in Range(archive)}
        acceptable == /\ \A e \in Range(archive) : e.nlink = 1 /\ canonical(e.name) /\ e.type \in {"file", "dir"}
                      /\ Cardinality(all) = Len(archive)
                      /\ ~\E f \in named("file"), o \in all : IsStrictPrefix(f, o)
                      /\ InitPath \in named("file")
        listed(d) == {Append(d.path, e.name) : e \in Range(d.entries)}
    IN /\ mounted <=> acceptable
       /\ mounted =>
            /\ UNION {listed(d) : d \in Range(ramfs.dirs)}
                 = {f.path : f \in Range(ramfs.files)} \cup ({d.path : d \in Range(ramfs.dirs)} \ {<<>>})
            /\ \A d \in Range(ramfs.dirs) : Cardinality(listed(d)) = Len(d.entries)
            /\ Cardinality(UNION {{e.ino : e \in Range(d.entries)} : d \in Range(ramfs.dirs)})
                 = Len(ramfs.files) + Len(ramfs.dirs) - 1

\* A path resolves only if every shorter path before it resolves to a directory, so
\* ".." never hides a missing component or a file used as a directory; and the
\* canonical path of the result leads to the same node from anywhere.
ResolvesStepByStep ==
  mounted /\ calls = 0 => \A cwd \in DOMAIN ramfs.dirs, input \in Inputs :   \* the index never changes
    LET end == resolve_existing_path(cwd, input) IN
    ~is_err(end) =>
      /\ \A n \in DOMAIN input :
           LET before == SubSeq(input, 1, n)
               mid == resolve_existing_path(cwd, before)
           IN before # <<empty>> /\ (\E m \in (n + 1)..Len(input) : input[m] # empty)
                => ~is_err(mid) /\ mid.node.kind = "Directory"
      /\ \A other \in DOMAIN ramfs.dirs :
           LET again == resolve_existing_path(other, <<empty>> \o (IF end.path = <<>> THEN <<empty>> ELSE end.path))
           IN ~is_err(again) /\ again.node = end.node

\* What the reads of a descriptor have returned is a prefix of the file, or of the
\* directory's listing, without gap or repetition, whatever buffers, faults and
\* forks happened; the offset is its length.
ReadsInOrder ==
  \A p \in Procs, fd \in Fd :
    files[p] # None /\ files[p].fds[fd] # None =>
      LET h == files[p].fds[fd] IN
      h.offset = Len(got[p][fd]) /\ got[p][fd] = SubSeq(content(h), 1, h.offset)

\* A call that reports an error leaves descriptors, offsets and directory alone.
no_effect == \A p \in Procs : ret'[p] # "ok" => files'[p] = files[p]
==========================================================================
