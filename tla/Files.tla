--------------------------------- MODULE Files ---------------------------------
(***************************************************************************)
(* The file handles of Omnisc'IO (files.cpp).  A file is known by its name *)
(* and has one handle, whichever interface opens it; each interface has    *)
(* its own pair of maps between handles and the descriptors it deals in:   *)
(* int for POSIX, MPI_File for MPI-I/O, FILE* for the C library.  The      *)
(* three copies of each function differ in those maps only, so that an     *)
(* action takes the interface as a parameter.                              *)
(***************************************************************************)
EXTENDS Naturals, FiniteSets

CONSTANTS Api,        \* the interfaces
          Name,       \* the names of files
          Fd          \* the descriptors an interface hands out

VARIABLES last_file_id,
          filename_to_file_h,   \* name -> handle
          file_h_to_filename,   \* handle -> name
          file_h_to_fd,         \* interface -> (handle -> descriptor)
          fd_to_file_h,         \* interface -> (descriptor -> handle)
          opened,     \* the environment: interface -> (open descriptor -> name)
          answer      \* the last call of filename_from: the name, and the name meant

vars == <<last_file_id, filename_to_file_h, file_h_to_filename, file_h_to_fd,
          fd_to_file_h, opened, answer>>

NoName == "empty"     \* the empty string
NoAnswer == [got |-> NoName, meant |-> NoName]

ASSUME NameAssumption == NoName \notin Name

Put(f, x, v) == [y \in DOMAIN f \cup {x} |-> IF y = x THEN v ELSE f[y]]
Without(f, x) == [y \in DOMAIN f \ {x} |-> f[y]]

Empty == [x \in {} |-> x]

Init ==
  /\ last_file_id = 0
  /\ filename_to_file_h = Empty
  /\ file_h_to_filename = Empty
  /\ file_h_to_fd = [p \in Api |-> Empty]
  /\ fd_to_file_h = [p \in Api |-> Empty]
  /\ opened = [p \in Api |-> Empty]
  /\ answer = NoAnswer

\* What both branches of an open function do with the handle.
LinkFaulty(p, fd, fh) ==
  /\ file_h_to_fd' = [file_h_to_fd EXCEPT ![p] = Put(@, fh, fd)]
  /\ fd_to_file_h' = [fd_to_file_h EXCEPT ![p] = Put(@, fd, last_file_id)]

Link(p, fd, fh) ==
  /\ file_h_to_fd' = [file_h_to_fd EXCEPT ![p] = Put(@, fh, fd)]
  /\ fd_to_file_h' = [fd_to_file_h EXCEPT ![p] = Put(@, fd, fh)]

\* open_*_file, after a call of the interface has opened `name` as fd.
OpenKnown(p, name, fd) ==
  /\ fd \notin DOMAIN opened[p]
  /\ name \in DOMAIN filename_to_file_h
  /\ Link(p, fd, filename_to_file_h[name])
  /\ opened' = [opened EXCEPT ![p] = Put(@, fd, name)]
  /\ UNCHANGED <<last_file_id, filename_to_file_h, file_h_to_filename, answer>>

\* The handle of a file that is opened for the first time.
NewHandleFaulty(p) == Cardinality(DOMAIN file_h_to_fd[p]) + 1

NewHandle(p) == last_file_id + 1

OpenNew(p, name, fd) ==
  /\ fd \notin DOMAIN opened[p]
  /\ name \notin DOMAIN filename_to_file_h
  /\ last_file_id' = NewHandle(p)
  /\ Link(p, fd, last_file_id')
  /\ filename_to_file_h' = Put(filename_to_file_h, name, last_file_id')
  /\ opened' = [opened EXCEPT ![p] = Put(@, fd, name)]
  /\ UNCHANGED <<file_h_to_filename, answer>>

\* close_*_file, whose test holds for every descriptor that was opened: the
\* handle loses its descriptor, even one that another open put there since.
UnlinkFaulty(p, fd) == UNCHANGED file_h_to_fd

Unlink(p, fd) ==
  file_h_to_fd' = [file_h_to_fd EXCEPT ![p] = Without(@, fd_to_file_h[p][fd])]

Close(p, fd) ==
  /\ fd \in DOMAIN opened[p]
  /\ opened' = [opened EXCEPT ![p] = Without(@, fd)]
  /\ IF fd \in DOMAIN fd_to_file_h[p]
     THEN /\ fd_to_file_h' = [fd_to_file_h EXCEPT ![p] = Without(@, fd)]
          /\ Unlink(p, fd)
     ELSE UNCHANGED <<fd_to_file_h, file_h_to_fd>>
  /\ UNCHANGED <<last_file_id, filename_to_file_h, file_h_to_filename, answer>>

\* filename_from_*_file, on an open descriptor: operator[] on the map adds the
\* empty name for a handle that has none.
FilenameFrom(p, fd) ==
  /\ fd \in DOMAIN opened[p]
  /\ IF fd \in DOMAIN fd_to_file_h[p]
     THEN LET fh   == fd_to_file_h[p][fd]
              name == IF fh \in DOMAIN file_h_to_filename
                      THEN file_h_to_filename[fh] ELSE NoName
          IN  /\ file_h_to_filename' = Put(file_h_to_filename, fh, name)
              /\ answer' = [got |-> name, meant |-> opened[p][fd]]
     ELSE /\ answer' = [got |-> NoName, meant |-> opened[p][fd]]
          /\ UNCHANGED file_h_to_filename
  /\ UNCHANGED <<last_file_id, filename_to_file_h, file_h_to_fd, fd_to_file_h,
                 opened>>

Next ==
  \E p \in Api, fd \in Fd :
    \/ \E name \in Name : OpenKnown(p, name, fd) \/ OpenNew(p, name, fd)
    \/ Close(p, fd)
    \/ FilenameFrom(p, fd)

Spec == Init /\ [][Next]_vars

-----------------------------------------------------------------------------
\* The handles issued so far, and the maps from a part of D to R.
Handles == 1 .. last_file_id
Partial(D, R) == UNION {[X -> R] : X \in SUBSET D}

\* Type invariant.  file_h_to_filename only ever holds the empty name: no
\* function of files.cpp writes one, although files.hpp:86 documents the result of
\* filename_from_posix_file as the name of the file.
TypeOK ==
  /\ last_file_id \in Nat
  /\ filename_to_file_h \in Partial(Name, Handles)
  /\ file_h_to_filename \in Partial(Handles, {NoName})
  /\ file_h_to_fd \in [Api -> Partial(Handles, Fd)]
  /\ fd_to_file_h \in [Api -> Partial(Fd, Handles)]
  /\ opened \in [Api -> Partial(Fd, Name)]
  /\ answer \in [got : {NoName}, meant : Name \cup {NoName}]

\* files.hpp: a handle represents a file from the point of view of Omnisc'IO.
\* Two files never share one, across the three interfaces and any opens and
\* closes between the two first opens.
HandlesUnique ==
  \A m, n \in DOMAIN filename_to_file_h :
    filename_to_file_h[m] = filename_to_file_h[n] => m = n

\* While a descriptor is open it leads to the handle of the file it was opened
\* on, whatever the same file's other descriptors and the other interfaces do.
DescriptorsLead ==
  \A p \in Api :
    /\ DOMAIN fd_to_file_h[p] = DOMAIN opened[p]
    /\ \A fd \in DOMAIN opened[p] :
         /\ opened[p][fd] \in DOMAIN filename_to_file_h
         /\ fd_to_file_h[p][fd] = filename_to_file_h[opened[p][fd]]

\* A handle never leads to a descriptor that is closed, or reused by another
\* file: following it back returns to the handle.
HandlesLead ==
  \A p \in Api : \A fh \in DOMAIN file_h_to_fd[p] :
    /\ file_h_to_fd[p][fh] \in DOMAIN fd_to_file_h[p]
    /\ fd_to_file_h[p][file_h_to_fd[p][fh]] = fh

==============================================================================
