-------------------------------- MODULE Fat --------------------------------
(***************************************************************************)
(* The FAT volume of fat.cpp.  Directory[c] is what the directory cluster  *)
(* c holds; the bytes of a cluster are told apart by their place.          *)
(***************************************************************************)
EXTENDS Integers, SequencesExt, FiniteSetsExt

CONSTANTS
  FAT,              \* the table: the cluster after each cluster
  EndMarks,         \* the values that end a chain, 0x0FFFFFF8 and above
  Directory,        \* the entries in each directory cluster
  root_cluster,
  bytes_per_cluster

kEndOfClusterChain == -1
NoFile == [name |-> "none"]

\* name has 8 characters before the dot or 3 after it.
DirectoryEntry(name, full, first_cluster, file_size) ==
  [name |-> name, full |-> full, first_cluster |-> first_cluster, file_size |-> file_size]

NextCluster(cluster) ==
  IF FAT[cluster] \in EndMarks THEN kEndOfClusterChain ELSE FAT[cluster]

IsValidCluster(cluster) == cluster # 0 /\ cluster # kEndOfClusterChain

\* The clusters from one on, in the order of the chain.
RECURSIVE Chain(_)
Chain(cluster) ==
  IF IsValidCluster(cluster) THEN <<cluster>> \o Chain(NextCluster(cluster)) ELSE <<>>

\* NameIsEqual leaves the byte after 8 or 3 characters as it finds it: the name
\* of such a file may be found equal, or not.
NameIsEqual(entry, name) == IF entry.name = name THEN {TRUE, ~entry.full} ELSE {FALSE}

\* The clusters of a directory: only the end mark ends it, so that a 0 in its
\* chain, on a damaged volume, would be followed.
RECURSIVE DirectoryChain(_)
DirectoryChain(cluster) ==
  IF cluster = kEndOfClusterChain THEN <<>> ELSE <<cluster>> \o DirectoryChain(NextCluster(cluster))

\* FindFile: every result it may have.
FindFile(name) ==
  LET clusters == DirectoryChain(root_cluster)
      entries == FlattenSeq([i \in DOMAIN clusters |-> Directory[clusters[i]]])
      missed(i) == \A j \in 1 .. i - 1 : FALSE \in NameIsEqual(entries[j], name)
  IN  {entries[i] : i \in {j \in DOMAIN entries : missed(j) /\ TRUE \in NameIsEqual(entries[j], name)}}
        \cup (IF missed(Len(entries) + 1) THEN {NoFile} ELSE {})

Bytes(cluster, len) == [i \in 1 .. len |-> <<cluster, i>>]

RECURSIVE LoadFrom(_, _)
LoadFrom(cluster, len) ==
  IF ~IsValidCluster(cluster) THEN <<>>
  ELSE IF bytes_per_cluster >= len THEN Bytes(cluster, len)
  ELSE Bytes(cluster, bytes_per_cluster) \o LoadFrom(NextCluster(cluster), len - bytes_per_cluster)

\* What LoadFile puts into a buffer of the file's size; less, when the chain is
\* too short.
LoadFile(entry) == LoadFrom(entry.first_cluster, entry.file_size)

\* The bytes that belong to a file, if its chain holds them.
IsContents(entry, buf) ==
  /\ Len(buf) = entry.file_size
  /\ \A i \in DOMAIN buf :
       buf[i] = <<Chain(entry.first_cluster)[(i - 1) \div bytes_per_cluster + 1],
                  ((i - 1) % bytes_per_cluster) + 1>>
=============================================================================
