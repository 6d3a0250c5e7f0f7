------------------------------------ MODULE Vfs ------------------------------------
(***************************************************************************)
(* The virtual file system: mounts, the table of open handles, and the two     *)
(* file systems the kernel mounts, the devices at /dev and the read-only image *)
(* at /ramdisk.  Threads of several processes call it; a call takes the table's *)
(* lock for each look at it, so calls interleave between those steps.          *)
(*                                                                         *)
(* A path is a sequence of pieces, "/" among them, so that one path can be a   *)
(* prefix of another without being a parent of it.  An image is a sequence of  *)
(* cells; a header takes HeaderCells of them and says how many follow.         *)
(***************************************************************************)
EXTENDS Integers, Sequences, FiniteSets, SequencesExt

CONSTANTS VfsThreads, VfsProcs,
          OwnerOf,        \* thread -> its process
          OpenPaths,      \* paths opened
          DevicePaths,    \* below DevMount
          DevMount, RamMount,
          RamImages,      \* images the boot loader may hand over
          HeaderCells,
          ReadOffsets, ReadLens,
          MaxHandles      \* bound on HANDLE_COUNTER

VARIABLES mounts,         \* mount path -> "dev" or "ram"
          ram,            \* InMemoryFS: [len, infos]
          open_handles,   \* handle -> [pid, path]
          handle_counter,
          call,           \* thread -> [op, at, path, handle, arg]
          dev_opens,      \* device path -> on_open calls less on_close calls
          held,           \* ghost: handles a process was given and has not closed
          dead,           \* processes that were dropped
          vfs_panicked

vfsVars == <<mounts, ram, open_handles, handle_counter, call, dev_opens, held, dead, vfs_panicked>>

NoCall == [op |-> "none", at |-> "idle", path |-> <<>>, handle |-> -1, arg |-> 0]

\* InMemoryFS::new: header after header; an error leaves no file system.
ParseStep(s, data) ==
    CASE s.status # "run" -> s
      [] s.status = "run" /\ s.cursor >= Len(data) -> [s EXCEPT !.status = "ok"]
      [] s.status = "run" /\ s.cursor < Len(data) /\ Len(data) < s.cursor + HeaderCells ->
           [s EXCEPT !.status = "BufferTooSmall"]
      [] s.status = "run" /\ Len(data) >= s.cursor + HeaderCells
           /\ data[s.cursor + 1].size + s.cursor + HeaderCells > Len(data) ->
           [s EXCEPT !.status = "InvalidHeaderSize"]
      [] s.status = "run" /\ Len(data) >= s.cursor + HeaderCells
           /\ data[s.cursor + 1].size + s.cursor + HeaderCells <= Len(data) /\ data[s.cursor + 1].name = <<>> ->
           [s EXCEPT !.status = "InvalidHeaderName"]
      [] OTHER -> [s EXCEPT !.infos = Append(@, [name |-> data[s.cursor + 1].name, size |-> data[s.cursor + 1].size,
                                                 offset |-> s.cursor + HeaderCells]),
                            !.cursor = @ + HeaderCells + data[s.cursor + 1].size]

ParseImage(data) ==
    FoldLeft(LAMBDA s, i : ParseStep(s, data), [cursor |-> 0, infos |-> <<>>, status |-> "run"],
             [i \in 1..Len(data) + 1 |-> i])

\* path_to_fs: the longest mount the path is below, at a piece boundary.
IsBelow(path, mount) ==
    /\ IsPrefix(mount, path)
    /\ \/ Len(mount) = Len(path)
       \/ Len(path) > Len(mount) /\ path[Len(mount) + 1] = "/"
       \/ Last(mount) = "/"

MountsAbove(path) == {m \in DOMAIN mounts : IsBelow(path, m)}

MountOf(path) == CHOOSE m \in MountsAbove(path) : \A n \in MountsAbove(path) : Len(n) <= Len(m)

HasFs(path) == MountsAbove(path) # {}

FsOf(path) == mounts[MountOf(path)]

RelPath(path) == SubSeq(path, Len(MountOf(path)) + 1, Len(path))

\* check_file_opened
FileOpened(path, pid) ==
    \E h \in DOMAIN open_handles : open_handles[h] = [pid |-> pid, path |-> path]

HandleValid(h, pid) == h \in DOMAIN open_handles /\ open_handles[h].pid = pid

Goes(t, c) == call' = [call EXCEPT ![t] = c]
NotCalling(t) == call[t].at = "idle" /\ OwnerOf[t] \notin dead /\ ~vfs_panicked
At(t, op, at) == call[t].op = op /\ call[t].at = at /\ ~vfs_panicked

---------------------------------------------------------------------------
\* new_handle looks for the file among the open ones, then adds it.
OpenCheck(t, path) ==
    /\ NotCalling(t) /\ handle_counter < MaxHandles
    /\ Goes(t, IF FileOpened(path, OwnerOf[t]) THEN NoCall
               ELSE [NoCall EXCEPT !.op = "open", !.at = "insert", !.path = path])
    /\ UNCHANGED <<mounts, ram, open_handles, handle_counter, dev_opens, held, dead, vfs_panicked>>

OpenInsert(t) ==
    /\ At(t, "open", "insert") /\ handle_counter < MaxHandles
    /\ handle_counter' = handle_counter + 1
    /\ open_handles' = [h \in DOMAIN open_handles \union {handle_counter} |->
                          IF h = handle_counter THEN [pid |-> OwnerOf[t], path |-> call[t].path]
                          ELSE open_handles[h]]
    /\ Goes(t, [call[t] EXCEPT !.at = "fs", !.handle = handle_counter])
    /\ UNCHANGED <<mounts, ram, dev_opens, held, dead, vfs_panicked>>

\* A device hears of it; an image does not, even for a file it does not have.  With no
\* file system the call fails, and the handle stays in the table.
OpenFs(t) ==
    /\ At(t, "open", "fs")
    /\ dev_opens' = [d \in DevicePaths |->
         IF HasFs(call[t].path) /\ FsOf(call[t].path) = "dev" /\ RelPath(call[t].path) = d
         THEN dev_opens[d] + 1 ELSE dev_opens[d]]
    /\ held' = IF HasFs(call[t].path) /\ call[t].handle \in DOMAIN open_handles
               THEN held \union {[handle |-> call[t].handle, pid |-> OwnerOf[t], path |-> call[t].path]}
               ELSE held
    /\ Goes(t, NoCall)
    /\ UNCHANGED <<mounts, ram, open_handles, handle_counter, dead, vfs_panicked>>

\* close, read and write look the handle up, with the process it belongs to.
WithHandle(t, op, h, arg) ==
    /\ NotCalling(t)
    /\ Goes(t, IF HandleValid(h, OwnerOf[t])
               THEN [op |-> op, at |-> IF op = "close" THEN "delete" ELSE "fs", path |-> open_handles[h].path,
                     handle |-> h, arg |-> arg]
               ELSE NoCall)
    /\ UNCHANGED <<mounts, ram, open_handles, handle_counter, dev_opens, held, dead, vfs_panicked>>

\* Mutant: the file system hears of a close also when the handle was gone.
CloseDeleteTwice(t) ==
    /\ At(t, "close", "delete")
    /\ open_handles' = [h \in DOMAIN open_handles \ {call[t].handle} |-> open_handles[h]]
    /\ held' = {x \in held : x.handle # call[t].handle}
    /\ Goes(t, [call[t] EXCEPT !.at = "fs"])
    /\ UNCHANGED <<mounts, ram, handle_counter, dev_opens, dead, vfs_panicked>>

\* delete_handle: another thread may have closed it since.
CloseDelete(t) ==
    /\ At(t, "close", "delete")
    /\ open_handles' = [h \in DOMAIN open_handles \ {call[t].handle} |-> open_handles[h]]
    /\ held' = {x \in held : x.handle # call[t].handle}
    /\ Goes(t, IF call[t].handle \in DOMAIN open_handles THEN [call[t] EXCEPT !.at = "fs"] ELSE NoCall)
    /\ UNCHANGED <<mounts, ram, handle_counter, dev_opens, dead, vfs_panicked>>

Closed(opens, path) ==
    [d \in DevicePaths |-> IF HasFs(path) /\ FsOf(path) = "dev" /\ RelPath(path) = d THEN opens[d] - 1 ELSE opens[d]]

CloseFs(t) ==
    /\ At(t, "close", "fs")
    /\ dev_opens' = Closed(dev_opens, call[t].path)
    /\ Goes(t, NoCall)
    /\ UNCHANGED <<mounts, ram, open_handles, handle_counter, held, dead, vfs_panicked>>

\* InMemoryFS::read slices the image at the file's offset plus the caller's, which panics
\* past the end of the image even when nothing is to be read.
RamReadPanics(path, offset, len) ==
    \E i \in DOMAIN ram.infos :
      /\ ram.infos[i].name = RelPath(path)
      /\ \A j \in 1..i - 1 : ram.infos[j].name # RelPath(path)
      /\ ram.infos[i].offset + offset > ram.len

ReadFs(t, len) ==
    /\ At(t, "read", "fs")
    /\ vfs_panicked' = /\ HasFs(call[t].path) /\ FsOf(call[t].path) = "ram"
                       /\ RamReadPanics(call[t].path, call[t].arg, len)
    /\ Goes(t, NoCall)
    /\ UNCHANGED <<mounts, ram, open_handles, handle_counter, dev_opens, held, dead>>

\* Neither file system writes to anything of its own.
WriteFs(t) ==
    /\ At(t, "write", "fs")
    /\ Goes(t, NoCall)
    /\ UNCHANGED <<mounts, ram, open_handles, handle_counter, dev_opens, held, dead, vfs_panicked>>

\* A process is dropped once its last thread is gone: close_all_from_process holds the
\* table's lock while it closes each file, and unwraps the result.
DropProcess(p) ==
    LET its == {h \in DOMAIN open_handles : open_handles[h].pid = p}
        lost == {h \in its : ~HasFs(open_handles[h].path)}
    IN  /\ p \notin dead /\ ~vfs_panicked
        /\ \A t \in VfsThreads : OwnerOf[t] = p => call[t].at = "idle"
        /\ dead' = dead \union {p}
        /\ vfs_panicked' = (lost # {})
        /\ open_handles' = IF lost = {} THEN [h \in DOMAIN open_handles \ its |-> open_handles[h]] ELSE open_handles
        /\ dev_opens' = [d \in DevicePaths |->
             dev_opens[d] - Cardinality({h \in its \ lost : FsOf(open_handles[h].path) = "dev"
                                                         /\ RelPath(open_handles[h].path) = d})]
        /\ held' = {x \in held : x.pid # p}
        /\ UNCHANGED <<mounts, ram, handle_counter, call>>

\* main mounts the image, if the boot loader handed one over and it parses.
MountRam ==
    /\ RamMount \notin DOMAIN mounts /\ ~vfs_panicked
    /\ \E data \in RamImages :
         IF ParseImage(data).status = "ok"
         THEN /\ mounts' = [m \in {DevMount, RamMount} |-> IF m = DevMount THEN "dev" ELSE "ram"]
              /\ ram' = [len |-> Len(data), infos |-> ParseImage(data).infos]
              /\ UNCHANGED vfs_panicked
         ELSE vfs_panicked' = TRUE /\ UNCHANGED <<mounts, ram>>
    /\ UNCHANGED <<open_handles, handle_counter, call, dev_opens, held, dead>>

VfsInit ==
    /\ mounts = [m \in {DevMount} |-> "dev"]
    /\ ram = [len |-> 0, infos |-> <<>>]
    /\ open_handles = [h \in {} |-> 0] /\ handle_counter = 0
    /\ call = [t \in VfsThreads |-> NoCall]
    /\ dev_opens = [d \in DevicePaths |-> 0]
    /\ held = {} /\ dead = {} /\ vfs_panicked = FALSE

VfsNext ==
    \/ \E t \in VfsThreads :
         \/ \E path \in OpenPaths : OpenCheck(t, path)
         \/ OpenInsert(t) \/ OpenFs(t) \/ CloseDelete(t) \/ CloseFs(t) \/ WriteFs(t)
         \/ \E h \in 0..MaxHandles - 1 :
              WithHandle(t, "close", h, 0) \/ WithHandle(t, "write", h, 0)
                \/ \E offset \in ReadOffsets : WithHandle(t, "read", h, offset)
         \/ \E len \in ReadLens : ReadFs(t, len)
    \/ \E p \in VfsProcs : DropProcess(p)
    \/ MountRam

---------------------------------------------------------------------------
\* A handle a process was given stays its own, for the file it asked for, until the
\* process closes it or is gone; and every device has been opened once more than closed
\* for each of its handles in the table, whatever opens, closes (two of one handle at
\* once included) and exits were under way together.
VfsIsSound ==
    /\ \A x \in held : x.handle \in DOMAIN open_handles
                       /\ open_handles[x.handle] = [pid |-> x.pid, path |-> x.path]
    /\ \A x, y \in held : x.handle = y.handle => x = y
    /\ ~vfs_panicked => \A h \in DOMAIN open_handles : open_handles[h].pid \notin dead
    /\ ~vfs_panicked => \A d \in DevicePaths :
         LET on(path) == path = DevMount \o d
         IN  dev_opens[d] = Cardinality({h \in DOMAIN open_handles : on(open_handles[h].path)})
                            - Cardinality({t \in VfsThreads : At(t, "open", "fs") /\ on(call[t].path)})
                            + Cardinality({t \in VfsThreads : At(t, "close", "fs") /\ on(call[t].path)})

\* "Closes all files opened by the given process ID": dropping a process closes what it
\* opened, whatever that was.
DropClosesAll == \A h \in DOMAIN open_handles : open_handles[h].pid \notin dead
====================================================================================
