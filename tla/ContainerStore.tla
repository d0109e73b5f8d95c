--------------------------- MODULE ContainerStore ---------------------------
(***************************************************************************)
(* The container store (runtime/containers.rs) behind the CRI image        *)
(* service (runtime/cri/image.rs): images as files under the store root,   *)
(* the usage counters behind their mutex, pulls and removals that hold the *)
(* mutex, and reads that do not.                                           *)
(*                                                                         *)
(* A handler runs in the blocking pool, so its file operations interleave  *)
(* with those of other handlers.  A file is a sequence of units: one for   *)
(* the length header, ComponentSize[g] for the compiled component of image *)
(* g, one for its metadata.  A unit names the image it belongs to, so that *)
(* torn and mixed contents can be told from whole ones.                    *)
(***************************************************************************)
EXTENDS Integers, Sequences, FiniteSets

CONSTANTS
  Components,      \* component names: triples <<domain, server, version>>
  Images,          \* what a registry may serve under a name
  ComponentSize,   \* units of the compiled component of each image
  Calls,           \* concurrent handlers
  U64,             \* modulus of the usage counters (2^64 in the code)
  OverflowChecks,  \* built with overflow checks, as Bazel does by default
  MaxPulls,        \* bound: pulls that reach the disk
  Faults,          \* which of "create", "write", "cancel", "restart" happen
  None,
  Poisoned

ASSUME StoreAssumption ==
  /\ \A c \in Components : c = <<c[1], c[2], c[3]>>
  /\ \A g \in Images : ComponentSize[g] \in Nat \ {0}
  /\ U64 \in Nat \ {0}
  /\ OverflowChecks \in BOOLEAN

VARIABLES
  dirs,        \* directories under the store root
  container,   \* contents of each component's container file, or None
  imageSpec,   \* contents of each component's image spec file, or None
  usage,       \* FilesystemUsage: bytes and inodes
  lock,        \* the handler that holds the usage mutex, None or Poisoned
  calls,       \* handlers in flight
  reply,       \* how the last handler to return ended
  pulled,      \* history: the image a component holds since its last
               \* successful pull, None once a pull or removal touches it
  pulls,       \* how many pulls have been fetched, up to MaxPulls
  drifted      \* history: something happened that the counters do not follow

disk == <<dirs, container, imageSpec>>
history == <<pulled, pulls, drifted>>
vars == <<disk, usage, lock, calls, reply, history>>

-----------------------------------------------------------------------------
(* Contents *)

\* s is a beginning of t, of a path or of what a file should hold.
IsPrefix(s, t) == Len(s) <= Len(t) /\ SubSeq(t, 1, Len(s)) = s

Unit(part, g) == [part |-> part, image |-> g]

\* What pull writes for a part, in units.
Units(part, g) ==
  IF part = "component" THEN [n \in 1..ComponentSize[g] |-> Unit(part, g)]
                        ELSE <<Unit(part, g)>>

Serialized(g) ==
  Units("length", g) \o Units("component", g) \o Units("metadata", g)

\* wasmtime deserializes exactly what it has serialized.
deserialize(units) ==
  IF \E g \in Images : units = Units("component", g)
  THEN (CHOOSE g \in Images : units = Units("component", g)) ELSE None

\* prost decodes an empty buffer to an empty message.
decode(units) ==
  IF units = <<>> THEN "empty"
  ELSE IF \E g \in Images : units = Units("metadata", g)
       THEN units[1].image ELSE None

ASSUME NoneAssumption ==
  /\ None \notin Images \cup Calls \cup {Poisoned}
  /\ Poisoned \notin Calls
  /\ \A g \in Images : /\ None # <<Unit("spec", g)>>
                       /\ \A k \in 0..Len(Serialized(g)) : None # SubSeq(Serialized(g), 1, k)

-----------------------------------------------------------------------------
(* The file system *)

\* component_path and its ancestors below the root.
component_path(name) == {SubSeq(name, 1, k) : k \in 1..3}

Size(contents) == IF contents = None THEN 0 ELSE Len(contents)

\* What is really there: bytes of all files, number of files and directories.
Bytes(file) == UNION {{c} \X (1..Size(file[c])) : c \in Components}
Files(file) == {c \in Components : file[c] # None}
DiskBytes == Cardinality(Bytes(container)) + Cardinality(Bytes(imageSpec))
DiskInodes ==
  Cardinality(dirs) + Cardinality(Files(container)) + Cardinality(Files(imageSpec))

Count(bytes, inodes) ==
  usage' = [bytes  |-> (usage.bytes + bytes) % U64,
            inodes |-> (usage.inodes + inodes) % U64]

\* A subtraction below zero panics when overflow is checked.
Underflow(bytes, inodes) ==
  OverflowChecks /\ (usage.bytes < bytes \/ usage.inodes < inodes)

\* Bytes are taken off before the inode: the panic may come in between.
CountUntilPanic(bytes) ==
  usage' = [usage EXCEPT !.bytes = IF @ < bytes THEN @ ELSE @ - bytes]

-----------------------------------------------------------------------------
(* Handlers *)

\* A reader of a container file that is removed keeps the contents it had.
Handler(pc, name, quiet) ==
  [pc |-> pc, name |-> name, image |-> None, removed |-> None,
   component |-> None, quiet |-> quiet]

Idle == Handler("idle", None, FALSE)

Start(i, pc, c) ==
  calls' = [calls EXCEPT ![i] = Handler(pc, c, pulled[c] # None)]

At(i, pc) == calls[i].pc = pc

Goto(i, pc) == calls' = [calls EXCEPT ![i].pc = pc]

Result(status, component, metadata) ==
  [status |-> status, component |-> component, metadata |-> metadata]
Ok  == Result("ok", None, None)
Err == Result("error", None, None)
NotFound == Result("not_found", None, None)

\* A reply to a read of an image at rest also records what it should find.
Reply(c, quiet, result) ==
  reply' = [held |-> IF quiet THEN pulled[c] ELSE None, result |-> result]

Return(i, result) ==
  /\ calls' = [calls EXCEPT ![i] = Idle]
  /\ Reply(calls[i].name, calls[i].quiet, result)

(* Mutant: the mutex does not exclude. *)
Acquire_unguarded(i, pc) ==
  /\ lock' = i
  /\ pulled' = [pulled EXCEPT ![calls[i].name] = None]
  /\ calls' = [calls EXCEPT ![i].pc = pc]

\* A handler that changes files takes the mutex first.  Reads of the same
\* image that are under way no longer see it at rest.
Acquire(i, pc) ==
  /\ lock = None
  /\ lock' = i
  /\ pulled' = [pulled EXCEPT ![calls[i].name] = None]
  /\ calls' = [j \in Calls |->
       IF j = i THEN [calls[i] EXCEPT !.pc = pc]
       ELSE [calls[j] EXCEPT !.quiet = @ /\ calls[j].name # calls[i].name]]

\* The mutex is released when the closure returns, poisoned when it panics.
Release(i, result) ==
  /\ lock' = None
  /\ Return(i, result)

Panic(i) ==
  /\ lock' = Poisoned
  /\ Return(i, Err)

Init ==
  /\ dirs = {}
  /\ container = [c \in Components |-> None]
  /\ imageSpec = [c \in Components |-> None]
  /\ usage = [bytes |-> 0, inodes |-> 0]
  /\ lock = None
  /\ calls = [i \in Calls |-> Idle]
  /\ reply = None
  /\ pulled = [c \in Components |-> None]
  /\ pulls = 0
  /\ drifted = FALSE

\* Whoever finds the mutex poisoned fails.
lock_poisoned(i) ==
  /\ calls[i].pc \in {"pull", "remove", "filesystem_usage"}
  /\ lock = Poisoned
  /\ Return(i, Err)
  /\ UNCHANGED <<disk, usage, lock, history>>

-----------------------------------------------------------------------------
(* Pull *)

\* A request whose image names another component than the pod's labels is
\* refused; any other is fetched.
pull_image(i) ==
  /\ At(i, "idle")
  /\ \E name, label \in Components :
       IF name # label
       THEN Reply(name, FALSE, Err) /\ UNCHANGED calls
       ELSE /\ calls' = [calls EXCEPT ![i] = Handler("fetch", name, FALSE)]
            /\ UNCHANGED reply
  /\ UNCHANGED <<disk, usage, lock, history>>

\* The manifest, its two layers, compilation: any of it may fail.
fetch(i) ==
  /\ At(i, "fetch")
  /\ \/ /\ pulls < MaxPulls
        /\ pulls' = pulls + 1
        /\ \E g \in Images :
             calls' = [calls EXCEPT ![i] = [@ EXCEPT !.pc = "pull", !.image = g]]
        /\ UNCHANGED reply
     \/ Return(i, Err) /\ UNCHANGED pulls
  /\ UNCHANGED <<disk, usage, lock, pulled, drifted>>

\* Under the mutex: count the missing directories and create them.
pull_lock(i) ==
  LET path == component_path(calls[i].name)
  IN  /\ At(i, "pull")
      /\ Acquire(i, "create_container")
      /\ dirs' = dirs \cup path
      /\ Count(0, Cardinality(path \ dirs))
      /\ UNCHANGED <<container, imageSpec, reply, pulls, drifted>>

(* Mutant: an existing file is opened for appending. *)
pull_create_container_append(i) ==
  LET c == calls[i].name
  IN  /\ At(i, "create_container")
      /\ container' = [container EXCEPT ![c] = IF @ = None THEN <<>> ELSE @]
      /\ Count(0, IF container[c] = None THEN 1 ELSE 0)
      /\ Goto(i, "create_spec")
      /\ UNCHANGED <<dirs, imageSpec, lock, reply, history>>

\* Creating a file that exists truncates it.  Its inode is not counted again,
\* and its bytes are not taken off.
pull_create_container(i) ==
  LET c == calls[i].name
  IN  /\ At(i, "create_container")
      /\ container' = [container EXCEPT ![c] = <<>>]
      /\ Count(0, IF container[c] = None THEN 1 ELSE 0)
      /\ drifted' = (drifted \/ Size(container[c]) > 0)
      /\ Goto(i, "create_spec")
      /\ UNCHANGED <<dirs, imageSpec, lock, reply, pulled, pulls>>

pull_create_spec(i) ==
  LET c == calls[i].name
  IN  /\ At(i, "create_spec")
      /\ imageSpec' = [imageSpec EXCEPT ![c] = <<>>]
      /\ Count(0, IF imageSpec[c] = None THEN 1 ELSE 0)
      /\ drifted' = (drifted \/ Size(imageSpec[c]) > 0)
      /\ Goto(i, "length")
      /\ UNCHANGED <<dirs, container, lock, reply, pulled, pulls>>

\* The parts of the container file are written in this order.
NextPart(part) ==
  CASE part = "length" -> "component"
    [] part = "component" -> "metadata"
    [] part = "metadata" -> "spec"

pull_write(i) ==
  LET part == calls[i].pc
      units == Units(part, calls[i].image)
  IN  /\ part \in {"length", "component", "metadata"}
      /\ container' = [container EXCEPT ![calls[i].name] = @ \o units]
      /\ Count(Len(units), 0)
      /\ Goto(i, NextPart(part))
      /\ UNCHANGED <<dirs, imageSpec, lock, reply, history>>

pull_write_spec(i) ==
  /\ At(i, "spec")
  /\ imageSpec' = [imageSpec EXCEPT ![calls[i].name] =
                     @ \o <<Unit("spec", calls[i].image)>>]
  /\ Count(1, 0)
  /\ Goto(i, "sync")
  /\ UNCHANGED <<dirs, container, lock, reply, history>>

pull_sync(i) ==
  /\ At(i, "sync")
  /\ pulled' = [pulled EXCEPT ![calls[i].name] = calls[i].image]
  /\ Release(i, Ok)
  /\ UNCHANGED <<disk, usage, pulls, drifted>>

\* Creating the directories fails, perhaps after some of them.
pull_lock_fails(i) ==
  /\ "create" \in Faults
  /\ At(i, "pull")
  /\ lock = None
  /\ \E k \in 0..2 : dirs' = dirs \cup {SubSeq(calls[i].name, 1, j) : j \in 1..k}
  /\ drifted' = (drifted \/ dirs' # dirs)
  /\ Return(i, Err)
  /\ UNCHANGED <<container, imageSpec, usage, lock, pulled, pulls>>

\* A file cannot be created.
pull_create_fails(i) ==
  /\ "create" \in Faults
  /\ calls[i].pc \in {"create_container", "create_spec"}
  /\ Release(i, Err)
  /\ UNCHANGED <<disk, usage, history>>

\* A write fails after some of its bytes, which are not counted.  Nothing is
\* cleaned up.
pull_write_fails(i) ==
  LET part == calls[i].pc
      units == Units(part, calls[i].image)
  IN  /\ "write" \in Faults
      /\ part \in {"length", "component", "metadata"}
      /\ \E k \in 0..(Len(units) - 1) :
           container' = [container EXCEPT ![calls[i].name] = @ \o SubSeq(units, 1, k)]
      /\ drifted' = (drifted \/ container' # container)
      /\ Release(i, Err)
      /\ UNCHANGED <<dirs, imageSpec, usage, pulled, pulls>>

\* The image spec cannot be written, or a sync fails.
pull_sync_fails(i) ==
  /\ "write" \in Faults
  /\ calls[i].pc \in {"spec", "sync"}
  /\ Release(i, Err)
  /\ UNCHANGED <<disk, usage, history>>

-----------------------------------------------------------------------------
(* Removal: each file after a look at its size, then empty directories *)

remove_image(i) ==
  /\ At(i, "idle")
  /\ \E c \in Components :
       calls' = [calls EXCEPT ![i] = Handler("remove", c, FALSE)]
  /\ UNCHANGED <<disk, usage, lock, reply, history>>

remove_lock(i) ==
  /\ At(i, "remove")
  /\ Acquire(i, "remove_container")
  /\ UNCHANGED <<disk, usage, reply, pulls, drifted>>

\* Readers keep the file they have open.
Detach(c) ==
  [j \in Calls |->
     IF calls[j].name = c /\ calls[j].pc \in {"get_length", "get_component", "get_metadata"}
          /\ calls[j].removed = None
     THEN [calls[j] EXCEPT !.removed = container[c]] ELSE calls[j]]

remove_container(i) ==
  LET c == calls[i].name
      size == Size(container[c])
      detached == Detach(c)
  IN  /\ At(i, "remove_container")
      /\ container[c] # None
      /\ container' = [container EXCEPT ![c] = None]
      /\ IF Underflow(size, 1)
         THEN /\ lock' = Poisoned
              /\ calls' = [detached EXCEPT ![i] = Idle]
              /\ Reply(c, FALSE, Err)
              /\ CountUntilPanic(size)
         ELSE /\ calls' = [detached EXCEPT ![i].pc = "remove_spec"]
              /\ Count(- size, -1)
              /\ UNCHANGED <<lock, reply>>
      /\ UNCHANGED <<dirs, imageSpec, history>>

(* Mutant: the second inode is forgotten. *)
remove_spec_uncounted(i) ==
  LET c == calls[i].name
  IN  /\ At(i, "remove_spec")
      /\ imageSpec[c] # None
      /\ imageSpec' = [imageSpec EXCEPT ![c] = None]
      /\ Count(- Size(imageSpec[c]), 0)
      /\ Goto(i, "remove_dirs")
      /\ UNCHANGED <<dirs, container, lock, reply, history>>

remove_spec(i) ==
  LET c == calls[i].name
      size == Size(imageSpec[c])
  IN  /\ At(i, "remove_spec")
      /\ imageSpec[c] # None
      /\ imageSpec' = [imageSpec EXCEPT ![c] = None]
      /\ IF Underflow(size, 1)
         THEN Panic(i) /\ CountUntilPanic(size)
         ELSE /\ Count(- size, -1)
              /\ Goto(i, "remove_dirs")
              /\ UNCHANGED <<lock, reply>>
      /\ UNCHANGED <<dirs, container, history>>

\* A file that is not there, or cannot be removed, ends the removal.
remove_fails(i) ==
  /\ \/ At(i, "remove_container") /\ container[calls[i].name] = None
     \/ At(i, "remove_spec") /\ imageSpec[calls[i].name] = None
     \/ "write" \in Faults /\ calls[i].pc \in {"remove_container", "remove_spec"}
  /\ Release(i, Err)
  /\ UNCHANGED <<disk, usage, history>>

\* The directories of a component that hold nothing else.
EmptyDirs(c) ==
  {p \in component_path(c) :
     \A q \in dirs : IsPrefix(p, q) => q \in component_path(c)}

\* Innermost first, counting each; a panic stops at the one it cannot count.
remove_dirs(i) ==
  LET empty == EmptyDirs(calls[i].name)
      panics == Underflow(0, Cardinality(empty))
      removed == {p \in empty : panics => 3 - Len(p) <= usage.inodes}
  IN  /\ At(i, "remove_dirs")
      /\ dirs' = dirs \ removed
      /\ IF panics
         THEN Panic(i) /\ Count(0, - usage.inodes)
         ELSE Release(i, Ok) /\ Count(0, - Cardinality(removed))
      /\ UNCHANGED <<container, imageSpec, history>>

-----------------------------------------------------------------------------
(* Reads, without the mutex *)

File(i) == IF calls[i].removed # None THEN calls[i].removed
                                      ELSE container[calls[i].name]

\* get: open the file ...
get(i) ==
  /\ At(i, "idle")
  /\ \E c \in Components :
       IF container[c] = None
       THEN Reply(c, pulled[c] # None, Err) /\ UNCHANGED calls
       ELSE Start(i, "get_length", c) /\ UNCHANGED reply
  /\ UNCHANGED <<disk, usage, lock, history>>

\* ... read the length header ...
get_length(i) ==
  /\ At(i, "get_length")
  /\ IF File(i) = <<>>
     THEN Return(i, Err)
     ELSE /\ calls' = [calls EXCEPT ![i] =
                        [@ EXCEPT !.pc = "get_component", !.image = File(i)[1].image]]
          /\ UNCHANGED reply
  /\ UNCHANGED <<disk, usage, lock, history>>

\* ... as many units as it says ...
get_component(i) ==
  LET size == ComponentSize[calls[i].image]
  IN  /\ At(i, "get_component")
      /\ IF Len(File(i)) < 1 + size
         THEN Return(i, Err)
         ELSE /\ calls' = [calls EXCEPT ![i] =
                            [@ EXCEPT !.pc = "get_metadata",
                                      !.component = SubSeq(File(i), 2, 1 + size)]]
              /\ UNCHANGED reply
      /\ UNCHANGED <<disk, usage, lock, history>>

(* Mutant: the metadata is read one unit too late. *)
get_metadata_late(i) ==
  LET size == ComponentSize[calls[i].image]
      component == deserialize(calls[i].component)
      metadata == decode(SubSeq(File(i), 3 + size, Len(File(i))))
  IN  /\ At(i, "get_metadata")
      /\ Return(i, IF component = None \/ metadata = None
                   THEN Err ELSE Result("ok", component, metadata))
      /\ UNCHANGED <<disk, usage, lock, history>>

\* ... and whatever follows; then turn both into a container.
get_metadata(i) ==
  LET size == ComponentSize[calls[i].image]
      component == deserialize(calls[i].component)
      metadata == decode(SubSeq(File(i), 2 + size, Len(File(i))))
  IN  /\ At(i, "get_metadata")
      /\ Return(i, IF component = None \/ metadata = None
                   THEN Err ELSE Result("ok", component, metadata))
      /\ UNCHANGED <<disk, usage, lock, history>>

\* image_status: the size of the container file, then the image spec.
image_status(i) ==
  /\ At(i, "idle")
  /\ \E c \in Components :
       IF container[c] = None
       THEN Reply(c, pulled[c] # None, NotFound) /\ UNCHANGED calls
       ELSE Start(i, "get_image", c) /\ UNCHANGED reply
  /\ UNCHANGED <<disk, usage, lock, history>>

get_image(i) ==
  LET spec == imageSpec[calls[i].name]
  IN  /\ At(i, "get_image")
      /\ Return(i, IF spec = None THEN NotFound
                   ELSE Result("ok", IF spec = <<>> THEN "empty" ELSE spec[1].image, None))
      /\ UNCHANGED <<disk, usage, lock, history>>

\* A request about an image of the downstream runtime goes there, and so does
\* every list of images.
list_images(i) ==
  /\ At(i, "idle")
  /\ \E result \in {Ok, Err} : Reply(None, FALSE, result)
  /\ UNCHANGED <<disk, usage, lock, calls, history>>

\* image_fs_info: the downstream runtime's answer first, then the counters.
image_fs_info(i) ==
  /\ At(i, "idle")
  /\ \/ /\ calls' = [calls EXCEPT ![i] = Handler("filesystem_usage", None, FALSE)]
        /\ UNCHANGED reply
     \/ Reply(None, FALSE, Err) /\ UNCHANGED calls
  /\ UNCHANGED <<disk, usage, lock, history>>

filesystem_usage(i) ==
  /\ At(i, "filesystem_usage")
  /\ lock = None
  /\ Return(i, Ok)
  /\ UNCHANGED <<disk, usage, lock, history>>

-----------------------------------------------------------------------------
(* Faults of the surroundings *)

\* A client that gives up drops the handler while it fetches.  Later the
\* blocking closure runs on without it.
cancel(i) ==
  /\ "cancel" \in Faults
  /\ At(i, "fetch")
  /\ calls' = [calls EXCEPT ![i] = Idle]
  /\ UNCHANGED <<disk, usage, lock, reply, history>>

\* The process ends and starts again: the files stay, the counters do not.
restart ==
  /\ "restart" \in Faults
  /\ calls' = [i \in Calls |-> Idle]
  /\ lock' = None
  /\ usage' = [bytes |-> 0, inodes |-> 0]
  /\ reply' = None
  /\ drifted' = (drifted \/ dirs # {})
  /\ UNCHANGED <<disk, pulled, pulls>>

Next ==
  \/ \E i \in Calls :
       \/ pull_image(i) \/ fetch(i) \/ pull_lock(i) \/ pull_create_container(i)
       \/ pull_create_spec(i) \/ pull_write(i) \/ pull_write_spec(i)
       \/ pull_sync(i) \/ pull_lock_fails(i) \/ pull_create_fails(i)
       \/ pull_write_fails(i) \/ pull_sync_fails(i)
       \/ remove_image(i) \/ remove_lock(i) \/ remove_container(i)
       \/ remove_spec(i) \/ remove_fails(i) \/ remove_dirs(i)
       \/ get(i) \/ get_length(i) \/ get_component(i) \/ get_metadata(i)
       \/ image_status(i) \/ get_image(i) \/ list_images(i)
       \/ image_fs_info(i) \/ filesystem_usage(i)
       \/ lock_poisoned(i) \/ cancel(i)
  \/ restart

Spec == Init /\ [][Next]_vars

-----------------------------------------------------------------------------
(* Properties *)

Changing == {"create_container", "create_spec", "length", "component", "metadata",
             "spec", "sync", "remove_container", "remove_spec", "remove_dirs"}

(* The counters are 64-bit words, and whoever changes files holds the      *)
(* usage mutex.                                                            *)
StoreTypeOK ==
  /\ usage \in [bytes : 0..(U64 - 1), inodes : 0..(U64 - 1)]
  /\ lock \in Calls \cup {None, Poisoned}
  /\ pulled \in [Components -> Images \cup {None}]
  /\ \A i \in Calls : calls[i].pc \in Changing => lock = i

(* pull and remove hold the mutex from their first change to their last    *)
(* ("you can't remove or pull anything else until it's finished"): however *)
(* pulls, removals, failures and restarts interleave, a container file is  *)
(* a beginning of one image, never parts of two, and once a pull has       *)
(* succeeded it is that whole image until the next pull or removal.        *)
FilesHoldOneImage ==
  \A c \in Components :
    /\ container[c] # None => \E g \in Images : IsPrefix(container[c], Serialized(g))
    /\ pulled[c] # None => container[c] = Serialized(pulled[c])

(* pull promises that "subsequent calls to get should succeed".  A get or  *)
(* image_status that no pull or removal of the same image overlaps finds   *)
(* exactly the image of the last successful pull, with its own metadata    *)
(* and image spec, although it takes no lock.                              *)
QuietReadsFindPulled ==
  (reply # None /\ reply.held # None) =>
    /\ reply.result.status = "ok"
    /\ reply.result.component = reply.held
    /\ reply.result.metadata \in {reply.held, None}

(* FilesystemUsage counts what is on disk, step by step, as long as no     *)
(* image is pulled over an old one, no write or mkdir stops half way and   *)
(* the process does not start on a store that is not empty; and until then *)
(* no removal can underflow a counter and poison the mutex.                *)
UsageExactUntilDrift ==
  ~ drifted => /\ usage.bytes = DiskBytes % U64
               /\ usage.inodes = DiskInodes % U64
               /\ lock # Poisoned
=============================================================================
