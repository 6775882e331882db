------------------------------ MODULE FilesProofs ------------------------------
(***************************************************************************)
(* Proofs about module Files, for any interfaces, names and descriptors.   *)
(* Typing comes first; the three facts about the maps are inductive        *)
(* together, on top of it: a closed descriptor leaves a handle that        *)
(* another file could inherit, unless every handle leads back.             *)
(***************************************************************************)
EXTENDS Files, TLAPS

-----------------------------------------------------------------------------
(* Maps.                                                                   *)

\* What it is to be a partial map.
LEMMA PartialDef ==
  ASSUME NEW D, NEW R, NEW f
  PROVE  f \in Partial(D, R) <=>
           /\ f = [x \in DOMAIN f |-> f[x]]
           /\ DOMAIN f \subseteq D
           /\ \A x \in DOMAIN f : f[x] \in R
<1>1. ASSUME f \in Partial(D, R)
      PROVE  /\ f = [x \in DOMAIN f |-> f[x]]
             /\ DOMAIN f \subseteq D
             /\ \A x \in DOMAIN f : f[x] \in R
  <2>1. PICK X \in SUBSET D : f \in [X -> R]
    BY <1>1 DEF Partial
  <2> QED
    BY <2>1
<1>2. ASSUME f = [x \in DOMAIN f |-> f[x]],
             DOMAIN f \subseteq D,
             \A x \in DOMAIN f : f[x] \in R
      PROVE  f \in Partial(D, R)
  <2>1. f \in [DOMAIN f -> R]
    BY <1>2
  <2>2. DOMAIN f \in SUBSET D
    BY <1>2
  <2> QED
    BY <2>1, <2>2 DEF Partial
<1> QED
  BY <1>1, <1>2

\* An entry more, or another.
LEMMA PutPartial ==
  ASSUME NEW D, NEW R, NEW f \in Partial(D, R), NEW x \in D, NEW v \in R
  PROVE  /\ Put(f, x, v) \in Partial(D, R)
         /\ DOMAIN Put(f, x, v) = DOMAIN f \cup {x}
         /\ Put(f, x, v)[x] = v
         /\ \A y \in DOMAIN f : y # x => Put(f, x, v)[y] = f[y]
<1> DEFINE p == Put(f, x, v)
<1>1. DOMAIN f \subseteq D /\ \A y \in DOMAIN f : f[y] \in R
  BY PartialDef
<1>2. p \in [DOMAIN f \cup {x} -> R]
  BY <1>1 DEF Put
<1>3. DOMAIN f \cup {x} \in SUBSET D
  BY <1>1
<1>4. p \in Partial(D, R)
  BY <1>2, <1>3 DEF Partial
<1> QED
  BY <1>4 DEF Put

\* An entry less.
LEMMA WithoutPartial ==
  ASSUME NEW D, NEW R, NEW f \in Partial(D, R), NEW x
  PROVE  /\ Without(f, x) \in Partial(D, R)
         /\ DOMAIN Without(f, x) = DOMAIN f \ {x}
         /\ \A y \in DOMAIN f \ {x} : Without(f, x)[y] = f[y]
<1> DEFINE w == Without(f, x)
<1>1. DOMAIN f \subseteq D /\ \A y \in DOMAIN f : f[y] \in R
  BY PartialDef
<1>2. w \in [DOMAIN f \ {x} -> R]
  BY <1>1 DEF Without
<1>3. DOMAIN f \ {x} \in SUBSET D
  BY <1>1
<1>4. w \in Partial(D, R)
  BY <1>2, <1>3 DEF Partial
<1> QED
  BY <1>4 DEF Without

\* A map stays a map between larger sets.
LEMMA PartialMono ==
  ASSUME NEW D, NEW E, NEW R, NEW S, D \subseteq E, R \subseteq S,
         NEW f \in Partial(D, R)
  PROVE  f \in Partial(E, S)
  BY PartialDef

\* The map without entries.
LEMMA EmptyPartial ==
  ASSUME NEW D, NEW R
  PROVE  Empty \in Partial(D, R)
<1>1. Empty \in [{} -> R]
  BY DEF Empty
<1> QED
  BY <1>1 DEF Partial
-----------------------------------------------------------------------------
(* Typing.                                                                 *)

\* The next handle is a new one.
LEMMA HandlesGrow ==
  ASSUME TypeOK, last_file_id' = last_file_id + 1
  PROVE  /\ Handles \subseteq Handles'
         /\ last_file_id' \in Handles'
         /\ last_file_id' \notin Handles
  BY DEF TypeOK, Handles

\* Linking a descriptor and a handle keeps the maps maps.
LEMMA LinkTyped ==
  ASSUME TypeOK, NEW p \in Api, NEW fd \in Fd, NEW fh \in Handles',
         Handles \subseteq Handles', Link(p, fd, fh)
  PROVE  /\ file_h_to_fd' \in [Api -> Partial(Handles', Fd)]
         /\ fd_to_file_h' \in [Api -> Partial(Fd, Handles')]
<1>1. \A q \in Api : /\ file_h_to_fd[q] \in Partial(Handles', Fd)
                     /\ fd_to_file_h[q] \in Partial(Fd, Handles')
  BY PartialMono DEF TypeOK
<1>2. /\ Put(file_h_to_fd[p], fh, fd) \in Partial(Handles', Fd)
      /\ Put(fd_to_file_h[p], fd, fh) \in Partial(Fd, Handles')
  BY <1>1, PutPartial
<1> QED
  BY <1>1, <1>2 DEF TypeOK, Link

\* So does recording what is open.
LEMMA OpenedTyped ==
  ASSUME TypeOK, NEW p \in Api, NEW fd \in Fd, NEW name \in Name,
         opened' = [opened EXCEPT ![p] = Put(@, fd, name)]
  PROVE  opened' \in [Api -> Partial(Fd, Name)]
<1>1. Put(opened[p], fd, name) \in Partial(Fd, Name)
  BY PutPartial DEF TypeOK
<1> QED
  BY <1>1 DEF TypeOK

\* Every reachable state of the handle tables is of its type: a handle in any of
\* them has been issued.
THEOREM Typing == Spec => []TypeOK
<1>1. Init => TypeOK
  <2> SUFFICES ASSUME Init PROVE TypeOK
    OBVIOUS
  <2>1. \A D, R : Empty \in Partial(D, R)
    BY EmptyPartial
  <2> QED
    BY <2>1 DEF Init, TypeOK, NoAnswer
<1>2. TypeOK /\ [Next]_vars => TypeOK'
  <2> SUFFICES ASSUME TypeOK, [Next]_vars PROVE TypeOK'
    OBVIOUS
  <2>1. ASSUME NEW p \in Api, NEW fd \in Fd, NEW name \in Name,
               OpenKnown(p, name, fd)
        PROVE  TypeOK'
    <3>1. Handles' = Handles
      BY <2>1 DEF OpenKnown, Handles
    <3>2. filename_to_file_h[name] \in Handles
      BY <2>1, PartialDef DEF TypeOK, OpenKnown
    <3>3. /\ file_h_to_fd' \in [Api -> Partial(Handles', Fd)]
          /\ fd_to_file_h' \in [Api -> Partial(Fd, Handles')]
      BY <2>1, <3>1, <3>2, LinkTyped DEF OpenKnown
    <3>4. opened' \in [Api -> Partial(Fd, Name)]
      BY <2>1, OpenedTyped DEF OpenKnown
    <3> QED
      BY <2>1, <3>1, <3>3, <3>4 DEF TypeOK, OpenKnown
  <2>2. ASSUME NEW p \in Api, NEW fd \in Fd, NEW name \in Name,
               OpenNew(p, name, fd)
        PROVE  TypeOK'
    <3>1. /\ Handles \subseteq Handles'
          /\ last_file_id' \in Handles'
      BY <2>2, HandlesGrow DEF OpenNew, NewHandle
    <3>2. /\ filename_to_file_h \in Partial(Name, Handles')
          /\ file_h_to_filename \in Partial(Handles', {NoName})
      BY <3>1, PartialMono DEF TypeOK
    <3>3. Put(filename_to_file_h, name, last_file_id') \in Partial(Name, Handles')
      BY <3>1, <3>2, PutPartial
    <3>4. /\ file_h_to_fd' \in [Api -> Partial(Handles', Fd)]
          /\ fd_to_file_h' \in [Api -> Partial(Fd, Handles')]
      BY <2>2, <3>1, LinkTyped DEF OpenNew
    <3>5. opened' \in [Api -> Partial(Fd, Name)]
      BY <2>2, OpenedTyped DEF OpenNew
    <3>6. last_file_id' \in Nat
      BY <2>2 DEF OpenNew, NewHandle, TypeOK
    <3> QED
      BY <2>2, <3>2, <3>3, <3>4, <3>5, <3>6 DEF TypeOK, OpenNew
  <2>3. ASSUME NEW p \in Api, NEW fd \in Fd, Close(p, fd)
        PROVE  TypeOK'
    <3>1. Handles' = Handles
      BY <2>3 DEF Close, Handles
    <3>2. /\ \A x : Without(file_h_to_fd[p], x) \in Partial(Handles, Fd)
          /\ \A x : Without(fd_to_file_h[p], x) \in Partial(Fd, Handles)
          /\ \A x : Without(opened[p], x) \in Partial(Fd, Name)
      BY WithoutPartial DEF TypeOK
    <3> QED
      BY <2>3, <3>1, <3>2 DEF TypeOK, Close, Unlink
  <2>4. ASSUME NEW p \in Api, NEW fd \in Fd, FilenameFrom(p, fd)
        PROVE  TypeOK'
    <3>1. Handles' = Handles
      BY <2>4 DEF FilenameFrom, Handles
    <3>2. opened[p][fd] \in Name
      BY <2>4, PartialDef DEF TypeOK, FilenameFrom
    <3>3. CASE fd \in DOMAIN fd_to_file_h[p]
      <4> DEFINE fh == fd_to_file_h[p][fd]
                 name == IF fh \in DOMAIN file_h_to_filename
                         THEN file_h_to_filename[fh] ELSE NoName
      <4>1. fh \in Handles
        BY <3>3, PartialDef DEF TypeOK
      <4>2. name \in {NoName}
        BY PartialDef DEF TypeOK
      <4>3. Put(file_h_to_filename, fh, name) \in Partial(Handles, {NoName})
        BY <4>1, <4>2, PutPartial DEF TypeOK
      <4> HIDE DEF name
      <4>4. /\ file_h_to_filename' = Put(file_h_to_filename, fh, name)
            /\ answer' = [got |-> name, meant |-> opened[p][fd]]
        BY <2>4, <3>3 DEF FilenameFrom, name
      <4> QED
        BY <2>4, <3>1, <3>2, <4>2, <4>3, <4>4 DEF TypeOK, FilenameFrom
    <3>4. CASE fd \notin DOMAIN fd_to_file_h[p]
      BY <2>4, <3>1, <3>2, <3>4 DEF TypeOK, FilenameFrom
    <3> QED
      BY <3>3, <3>4
  <2>5. CASE UNCHANGED vars
    BY <2>5 DEF TypeOK, vars, Handles
  <2> QED
    BY <2>1, <2>2, <2>3, <2>4, <2>5 DEF Next
<1> QED
  BY <1>1, <1>2, PTL DEF Spec
-----------------------------------------------------------------------------
(* The handles.                                                            *)

\* Two files never share a handle: the handle of a file opened for the first
\* time is above every handle in use, which is what typing says.
THEOREM Uniqueness == Spec => []HandlesUnique
<1>1. Init => HandlesUnique
  BY DEF Init, HandlesUnique, Empty
<1>2. TypeOK /\ HandlesUnique /\ [Next]_vars => HandlesUnique'
  <2> SUFFICES ASSUME TypeOK, HandlesUnique, [Next]_vars PROVE HandlesUnique'
    OBVIOUS
  <2>1. ASSUME NEW p \in Api, NEW fd \in Fd, NEW name \in Name,
               OpenNew(p, name, fd)
        PROVE  HandlesUnique'
    <3>1. last_file_id' \notin Handles
      BY <2>1, HandlesGrow DEF OpenNew, NewHandle
    <3>2. \A n \in DOMAIN filename_to_file_h : filename_to_file_h[n] \in Handles
      BY PartialDef DEF TypeOK
    <3> QED
      BY <2>1, <3>1, <3>2 DEF OpenNew, HandlesUnique, Put
  <2>2. CASE UNCHANGED filename_to_file_h
    BY <2>2 DEF HandlesUnique
  <2> QED
    BY <2>1, <2>2 DEF Next, OpenKnown, Close, FilenameFrom, vars
<1> QED
  BY <1>1, <1>2, Typing, PTL DEF Spec

\* The inductive invariant of the two theorems on the descriptors: only with
\* both does a close remove the handle's link that it means to remove.
MapsLead == DescriptorsLead /\ HandlesLead

\* A new descriptor, linked to the handle of its file, leads there and back.
LEMMA LinkLeads ==
  ASSUME TypeOK, MapsLead, TypeOK', NEW p \in Api, NEW fd \in Fd, NEW name \in Name,
         fd \notin DOMAIN opened[p],
         name \in DOMAIN filename_to_file_h',
         \A n \in DOMAIN filename_to_file_h :
           /\ n \in DOMAIN filename_to_file_h'
           /\ filename_to_file_h'[n] = filename_to_file_h[n],
         Link(p, fd, filename_to_file_h'[name]),
         opened' = [opened EXCEPT ![p] = Put(@, fd, name)]
  PROVE  MapsLead'
<1> DEFINE fh == filename_to_file_h'[name]
<1>1. /\ file_h_to_fd'[p] = Put(file_h_to_fd[p], fh, fd)
      /\ fd_to_file_h'[p] = Put(fd_to_file_h[p], fd, fh)
      /\ opened'[p] = Put(opened[p], fd, name)
  BY DEF Link, TypeOK
<1>2. \A q \in Api \ {p} : /\ file_h_to_fd'[q] = file_h_to_fd[q]
                           /\ fd_to_file_h'[q] = fd_to_file_h[q]
                           /\ opened'[q] = opened[q]
  BY DEF Link, TypeOK
<1>3. DescriptorsLead'
  BY <1>1, <1>2 DEF MapsLead, DescriptorsLead, Put
<1>4. HandlesLead'
  BY <1>1, <1>2 DEF MapsLead, DescriptorsLead, HandlesLead, Put
<1> QED
  BY <1>3, <1>4 DEF MapsLead

\* An open descriptor leads to the handle of its file, and a handle to an open
\* descriptor of its file, for any number of opens, closes and reuses.
THEOREM Leading == Spec => [](DescriptorsLead /\ HandlesLead)
<1>1. Init => MapsLead
  BY DEF Init, MapsLead, DescriptorsLead, HandlesLead, Empty
<1>2. TypeOK /\ TypeOK' /\ MapsLead /\ [Next]_vars => MapsLead'
  <2> SUFFICES ASSUME TypeOK, TypeOK', MapsLead, [Next]_vars PROVE MapsLead'
    OBVIOUS
  <2>1. ASSUME NEW p \in Api, NEW fd \in Fd, NEW name \in Name,
               OpenKnown(p, name, fd)
        PROVE  MapsLead'
    <3>1. filename_to_file_h' = filename_to_file_h
      BY <2>1 DEF OpenKnown
    <3> QED
      BY <2>1, <3>1, LinkLeads DEF OpenKnown
  <2>2. ASSUME NEW p \in Api, NEW fd \in Fd, NEW name \in Name,
               OpenNew(p, name, fd)
        PROVE  MapsLead'
    <3>1. filename_to_file_h' = Put(filename_to_file_h, name, last_file_id')
      BY <2>2 DEF OpenNew
    <3>2. /\ name \in DOMAIN filename_to_file_h'
          /\ filename_to_file_h'[name] = last_file_id'
          /\ \A n \in DOMAIN filename_to_file_h :
                /\ n \in DOMAIN filename_to_file_h'
                /\ filename_to_file_h'[n] = filename_to_file_h[n]
      BY <2>2, <3>1 DEF OpenNew, Put
    <3> QED
      BY <2>2, <3>2, LinkLeads DEF OpenNew
  <2>3. ASSUME NEW p \in Api, NEW fd \in Fd, Close(p, fd)
        PROVE  MapsLead'
    <3> DEFINE fh == fd_to_file_h[p][fd]
    <3>1. fd \in DOMAIN fd_to_file_h[p]
      BY <2>3 DEF Close, MapsLead, DescriptorsLead
    <3>2. /\ file_h_to_fd'[p] = Without(file_h_to_fd[p], fh)
          /\ fd_to_file_h'[p] = Without(fd_to_file_h[p], fd)
          /\ opened'[p] = Without(opened[p], fd)
          /\ filename_to_file_h' = filename_to_file_h
      BY <2>3, <3>1 DEF Close, Unlink, TypeOK
    <3>3. \A q \in Api \ {p} : /\ file_h_to_fd'[q] = file_h_to_fd[q]
                               /\ fd_to_file_h'[q] = fd_to_file_h[q]
                               /\ opened'[q] = opened[q]
      BY <2>3, <3>1 DEF Close, Unlink, TypeOK
    <3>4. DescriptorsLead'
      BY <3>2, <3>3 DEF MapsLead, DescriptorsLead, Without
    <3>5. HandlesLead'
      BY <3>2, <3>3 DEF MapsLead, HandlesLead, Without
    <3> QED
      BY <3>4, <3>5 DEF MapsLead
  <2>4. CASE UNCHANGED <<filename_to_file_h, file_h_to_fd, fd_to_file_h, opened>>
    BY <2>4 DEF MapsLead, DescriptorsLead, HandlesLead
  <2> QED
    BY <2>1, <2>2, <2>3, <2>4 DEF Next, FilenameFrom, vars
<1> QED
  BY <1>1, <1>2, Typing, PTL DEF Spec, MapsLead

\* By itself: no descriptor, open or reused, leads to the handle of another file.
THEOREM DescriptorsFollow == Spec => []DescriptorsLead
BY Leading, PTL

==============================================================================
