------------------------------ MODULE FileTree ------------------------------
(***************************************************************************)
(* The virtual file tree (kdx-server-core/src/files/tree.rs, acl.rs), its  *)
(* rows (kdx-storage/src/file_tree.rs) and the search catalogue.           *)
(*                                                                         *)
(* Every edit holds the tree's write lock from its first check to the      *)
(* change in memory, so it is one step; an edit whose statement fails      *)
(* changes nothing.  An upload is checked when it begins and filed when    *)
(* its bytes are in, with edits in between.                                *)
(*                                                                         *)
(* A node is known by a number that is never used again (its UUID), 0 is   *)
(* the root.  All labels are equally long: the cap on path lengths is the  *)
(* cap on depth.  Refusals are not told apart.                             *)
(***************************************************************************)
EXTENDS Integers, Sequences, FiniteSets, SequencesExt

CONSTANTS
  Labels,        \* names of entries
  ItemOf,        \* AccessItem::parse: the access item a label declares
  Standing,      \* per user of the tree: class and privileges
  FolderSpecs,   \* the folders asked for: kind, classes, owner
  MaxTreeDepth,  \* MAX_TREE_DEPTH
  Seeds,         \* sequences of nodes the tree may hold at the start
  MaxTreeEdits   \* bound on edits

VARIABLES
  tree,      \* TreeState: the nodes, and the children of each
  rows,      \* the file_nodes table
  born,      \* nodes made so far
  heading,   \* the upload that was accepted, if any
  catalog,   \* the catalogue that searches use
  hand,      \* the user whose edit was the last step
  treeEdits

treeVars == <<tree, rows, born, heading, catalog, hand, treeEdits>>

Nowhere == -1
Nobody == "nobody"
AdminClass == 3
TreeUsers == DOMAIN Standing
FolderKinds == {"dir", "dropbox", "upload"}

TreeNode(up, name, kind, read, write, owner, target) ==
  [up |-> up, name |-> name, kind |-> kind, read |-> read, write |-> write,
   owner |-> owner, target |-> target]

\* A table that earlier edits may have left: its nodes hang from the root in
\* folders, as deep as edits allow, under different names, and no alias has
\* an alias for its target.
SeedSound(s) ==
  LET Made == 1 .. Len(s)
      DepthCap(i) == MaxTreeDepth + IF s[i].kind = "file" THEN 1 ELSE 0
  IN /\ Len(s) \in Nat
     /\ \A i \in Made :
          /\ s[i] = TreeNode(s[i].up, s[i].name, s[i].kind, s[i].read,
                             s[i].write, s[i].owner, s[i].target)
          /\ s[i].up \in 0 .. Len(s) /\ s[i].read \in Nat
          /\ s[i].up # 0 => s[s[i].up].kind \in FolderKinds
          /\ s[i].target \in {Nowhere} \cup Made
          /\ s[i].target # Nowhere => s[s[i].target].kind # "alias"
          /\ \A j \in Made :
               s[i].up = s[j].up /\ s[i].name = s[j].name => i = j
     /\ \E depth \in [0 .. Len(s) -> 0 .. (MaxTreeDepth + 1)] :
          /\ depth[0] = 0
          /\ \A i \in Made : /\ depth[i] = depth[s[i].up] + 1
                            /\ depth[i] <= DepthCap(i)

ASSUME TreeConstants ==
  /\ MaxTreeDepth \in Nat
  /\ Nobody \notin TreeUsers
  /\ \A s \in TreeUsers : Standing[s].class \in Nat
  /\ \A f \in FolderSpecs : f.kind \in FolderKinds /\ f.read \in Nat
  /\ \A s \in Seeds : SeedSound(s)

RootName == ""
RootNode == TreeNode(Nowhere, RootName, "dir", 0, 2, Nobody, Nowhere)
NoUpload == [to |-> Nowhere, name |-> "", blind |-> FALSE]

\* FileTree::load.
Load(table) ==
  [nodes |-> table,
   kids |-> [p \in DOMAIN table |-> {i \in DOMAIN table : table[i].up = p}]]

TreeInit ==
  /\ \E s \in Seeds :
       /\ rows = [i \in 0..Len(s) |-> IF i = 0 THEN RootNode ELSE s[i]]
       /\ born = Len(s)
  /\ tree = Load(rows)
  /\ heading = NoUpload /\ catalog = {}
  /\ hand = Nobody /\ treeEdits = 0

(***************************************************************************)
(* acl.rs, applied to a folder n for the user s.                           *)
(***************************************************************************)
ClassOfUser(s) == Standing[s].class
May(s, p) == p \in Standing[s].privileges

IsFolder(n) == n.kind \in FolderKinds
ItemOfNode(n) == IF n.name \in Labels THEN ItemOf[n.name] ELSE "default"
IsDropBox(n) == n.kind = "dropbox" \/ ItemOfNode(n) = "db"
OwnerOrAdmin(n, s) == ClassOfUser(s) >= AdminClass \/ n.owner = s

CheckRead(n, s) ==
  IF IsDropBox(n) THEN OwnerOrAdmin(n, s) ELSE ClassOfUser(s) >= n.read

CheckWrite(n, s) == ClassOfUser(s) >= n.write /\ May(s, "upload")

CheckRemoveFrom(n, s) ==
  IF IsDropBox(n) THEN OwnerOrAdmin(n, s)
  ELSE /\ n.kind = "upload" \/ ItemOfNode(n) = "ul"
            => ClassOfUser(s) >= AdminClass
       /\ ClassOfUser(s) >= n.write

(***************************************************************************)
(* TreeState: walks.                                                       *)
(***************************************************************************)
Alive == DOMAIN tree.nodes
NodeAt(i) == tree.nodes[i]

\* ancestry: i, its parent, ..., the root, as many as there are nodes; empty
\* where the links do not end at the root.
Ancestry(i) ==
  LET climb[n \in Nat] ==
        [k \in Int |->
           IF n = 0 \/ k \notin Alive THEN {Nowhere}
           ELSE IF k = 0 THEN {0} ELSE {k} \cup climb[n - 1][NodeAt(k).up]]
      chain == climb[Cardinality(Alive)][i]
  IN IF Nowhere \in chain THEN {} ELSE chain

CheckReadChain(i, s) ==
  /\ Ancestry(i) # {}
  /\ \A a \in Ancestry(i) : CheckRead(NodeAt(a), s)

CheckNodeReadable(i, s) ==
  CheckReadChain(IF IsFolder(NodeAt(i)) THEN i ELSE NodeAt(i).up, s)

\* resolve_through_alias: one hop.
ThroughAlias(i) ==
  IF i = Nowhere \/ NodeAt(i).kind # "alias" THEN i
  ELSE LET t == NodeAt(i).target IN
         IF t \in Alive /\ NodeAt(t).kind # "alias" THEN t ELSE Nowhere

\* walk: the entries of node i, an alias followed; every folder that is
\* looked into must be readable by s.
LookInto(i, s) ==
  LET at == ThroughAlias(i)
      open == /\ at # Nowhere
              /\ IF at # i THEN CheckNodeReadable(at, s)
                 ELSE IsFolder(NodeAt(i)) => CheckRead(NodeAt(i), s)
  IN IF open THEN tree.kids[at] \cap Alive ELSE {}

\* What the paths of s resolve to: the walk goes on as long as it finds
\* entries it has not seen.
ResolveAs(s) ==
  LET walk[n \in Nat] ==
        [seen \in SUBSET Alive |->
           LET more == UNION {LookInto(i, s) : i \in seen} \ seen
           IN IF n = 0 \/ more = {} THEN seen ELSE walk[n - 1][seen \cup more]]
  IN Alive \cap walk[Cardinality(Alive)][{0}]

NameTaken(i, label) == \E k \in tree.kids[i] : NodeAt(k).name = label

CheckPlaceInto(i, s, manage) ==
  /\ i # 0 => CheckReadChain(NodeAt(i).up, s)
  /\ CheckWrite(NodeAt(i), s)
  /\ manage /\ IsDropBox(NodeAt(i)) => OwnerOrAdmin(NodeAt(i), s)

CheckRoom(i, height) ==
  Ancestry(i) # {} /\ Cardinality(Ancestry(i)) + height <= MaxTreeDepth

Subtree(top) == {i \in Alive : top \in Ancestry(i)}

\* subtree_extent: the height of top's subtree.
Height(top) ==
  LET Below(i) == Cardinality(Ancestry(i)) - Cardinality(Ancestry(top))
      h == {Below(i) : i \in Subtree(top)}
  IN CHOOSE x \in h : \A y \in h : y <= x

\* Mutant: the folders below are emptied without asking their rules.
MayDeleteAll_TopOnly(top, s) ==
  IsFolder(NodeAt(top)) => CheckRemoveFrom(NodeAt(top), s)

\* collect_subtree_for_delete: every folder in it can be emptied.
MayDeleteAll(top, s) ==
  \A i \in Subtree(top) : IsFolder(NodeAt(i)) =>
    /\ CheckRemoveFrom(NodeAt(i), s)
    /\ tree.kids[i] # {} => CheckRead(NodeAt(i), s)

(***************************************************************************)
(* Edits.                                                                  *)
(***************************************************************************)
Edit(s) ==
  /\ treeEdits < MaxTreeEdits /\ treeEdits' = treeEdits + 1 /\ hand' = s

\* The row is inserted and then the node put in memory.
Insert(n) ==
  LET i == born + 1 IN
  /\ born' = i
  /\ rows' = [k \in DOMAIN rows \cup {i} |-> IF k = i THEN n ELSE rows[k]]
  /\ tree' = [nodes |-> [k \in Alive \cup {i} |->
                           IF k = i THEN n ELSE NodeAt(k)],
              kids |-> [k \in Alive \cup {i} |->
                          IF k = i THEN {}
                          ELSE IF k = n.up THEN tree.kids[k] \cup {i}
                          ELSE tree.kids[k]]]

CreateFolder(s) ==
  \E into \in ResolveAs(s), name \in Labels, spec \in FolderSpecs :
    LET mine == ClassOfUser(s)
        Clamp(c) == IF c < mine THEN c ELSE mine
    IN /\ May(s, "manage") /\ Edit(s)
       /\ spec.owner \in {Nobody, s} \/ May(s, "accounts")
       /\ IsFolder(NodeAt(into))
       /\ CheckPlaceInto(into, s, TRUE) /\ CheckRoom(into, 0)
       /\ ~NameTaken(into, name)
       /\ Insert(TreeNode(into, name, spec.kind, Clamp(spec.read),
                          Clamp(spec.write), spec.owner, Nowhere))
       /\ UNCHANGED <<heading, catalog>>

CreateAlias(s) ==
  \E source \in ResolveAs(s) \ {0}, into \in ResolveAs(s) :
       /\ May(s, "manage") /\ Edit(s)
       /\ NodeAt(source).kind # "alias"
       /\ CheckNodeReadable(source, s)
       /\ IsFolder(NodeAt(into))
       /\ CheckPlaceInto(into, s, TRUE) /\ CheckRoom(into, 0)
       /\ ~NameTaken(into, NodeAt(source).name)
       /\ Insert(TreeNode(into, NodeAt(source).name, "alias", 0, 2, Nobody,
                          source))
       /\ UNCHANGED <<heading, catalog>>

\* prepare_upload: a taken name is told only to who may list the folder.
PrepareUpload(s) ==
  \E into \in ResolveAs(s), name \in Labels :
    LET blind == ~CheckRead(NodeAt(into), s)
    IN /\ heading = NoUpload /\ hand' = Nobody
       /\ IsFolder(NodeAt(into))
       /\ CheckPlaceInto(into, s, FALSE) /\ CheckRoom(into, 0)
       /\ blind \/ ~NameTaken(into, name)
       /\ heading' = [to |-> into, name |-> name, blind |-> blind]
       /\ UNCHANGED <<tree, rows, born, catalog, treeEdits>>

\* file_entry: if the name was taken meanwhile, a blind upload gets a free
\* one and another is refused.
FileEntry ==
  /\ heading # NoUpload /\ heading' = NoUpload /\ Edit(Nobody)
  /\ heading.to \in Alive /\ IsFolder(NodeAt(heading.to))
  /\ \E name \in Labels :
       /\ ~NameTaken(heading.to, name)
       /\ name # heading.name => heading.blind
                                   /\ NameTaken(heading.to, heading.name)
       /\ Insert(TreeNode(heading.to, name, "file", 0, 2, Nobody, Nowhere))
  /\ UNCHANGED catalog

UploadRefused ==
  /\ heading # NoUpload /\ heading' = NoUpload /\ hand' = Nobody
  /\ UNCHANGED <<tree, rows, born, catalog, treeEdits>>

\* The rows go in one transaction; an alias of a deleted row loses its
\* target there (ON DELETE SET NULL), and dangles in memory.
Delete(s) ==
  \E top \in ResolveAs(s) \ {0} :
    LET up == NodeAt(top).up
        gone == Subtree(top)
    IN /\ May(s, "delete") /\ Edit(s)
       /\ up \in Alive
       /\ CheckReadChain(up, s) /\ CheckRemoveFrom(NodeAt(up), s)
       /\ IsFolder(NodeAt(top)) => May(s, "manage")
       /\ MayDeleteAll(top, s)
       /\ rows' = [i \in DOMAIN rows \ gone |->
                     IF rows[i].target \in gone
                     THEN [rows[i] EXCEPT !.target = Nowhere] ELSE rows[i]]
       /\ tree' = [nodes |-> [i \in Alive \ gone |-> NodeAt(i)],
                   kids |-> [i \in Alive \ gone |-> tree.kids[i] \ {top}]]
       /\ UNCHANGED <<born, heading, catalog>>

\* Mutant: a folder may go below itself.
WouldCycle_Never(top, into) == FALSE

WouldCycle(top, into) == top \in Ancestry(into)

MoveNode(s) ==
  \E top \in ResolveAs(s) \ {0}, into \in ResolveAs(s) :
    LET up == NodeAt(top).up
    IN /\ May(s, "manage") /\ Edit(s)
       /\ up \in Alive
       /\ CheckReadChain(up, s) /\ CheckRemoveFrom(NodeAt(up), s)
       /\ IsFolder(NodeAt(top)) => CheckRemoveFrom(NodeAt(top), s)
       /\ IsFolder(NodeAt(into))
       /\ CheckPlaceInto(into, s, TRUE) /\ ~WouldCycle(top, into)
       /\ into # up => ~NameTaken(into, NodeAt(top).name)
       /\ CheckRoom(into, Height(top))
       /\ rows' = [rows EXCEPT ![top].up = into]
       /\ tree' = [nodes |-> [tree.nodes EXCEPT ![top].up = into],
                   kids |-> [i \in Alive |->
                               IF i = into THEN tree.kids[i] \cup {top}
                               ELSE tree.kids[i] \ {top}]]
       /\ UNCHANGED <<born, heading, catalog>>

Restart ==
  /\ tree' = Load(rows) /\ tree' # tree
  /\ heading' = NoUpload /\ catalog' = {}
  /\ hand' = Nobody /\ UNCHANGED <<rows, born, treeEdits>>

(***************************************************************************)
(* generate_catalog and search.                                            *)
(***************************************************************************)
\* The highest read class on the way down to i, i's own only if a folder.
InheritedClass(i) ==
  LET c == {NodeAt(a).read : a \in {x \in Ancestry(i) :
                                      IsFolder(NodeAt(x))}} IN
    CHOOSE x \in c : \A y \in c : y <= x

\* collect_catalog goes into no drop box and follows no alias.
Indexed(i) ==
  /\ i # 0 /\ NodeAt(i).kind # "alias"
  /\ \A a \in Ancestry(i) \ {i} : ~IsDropBox(NodeAt(a))

GenerateCatalog ==
  /\ hand' = Nobody /\ Alive # {0}
  /\ catalog' = {[node |-> i, class |-> InheritedClass(i)] :
                   i \in {k \in Alive : Indexed(k)}}
  /\ UNCHANGED <<tree, rows, born, heading, treeEdits>>

Search(s) ==
  {e.node : e \in {x \in catalog : ClassOfUser(s) >= x.class}}

\* open_for_read (and list, info): what s can read.
OpenForRead(s) ==
  {i \in {ThroughAlias(k) : k \in ResolveAs(s)} \ {Nowhere} :
     CheckNodeReadable(i, s)}

TreeNext ==
  \/ \E s \in TreeUsers :
       \/ CreateFolder(s) \/ CreateAlias(s) \/ PrepareUpload(s)
       \/ Delete(s) \/ MoveNode(s)
  \/ FileEntry \/ UploadRefused \/ Restart \/ GenerateCatalog

TreeSpec == TreeInit /\ [][TreeNext]_treeVars

(***************************************************************************)
(* Properties.                                                             *)
(***************************************************************************)
\* Whatever order folders, aliases and uploads are made, moved and deleted
\* in: every node hangs from the root, no deeper than the cap (a file one
\* deeper, when its folder was moved down while it was uploaded), siblings
\* have different names, an alias never leads to an alias, and memory
\* (child lists included) agrees with the table, so that a restart changes
\* nothing but the targets of aliases that dangle anyway.
TreeSound ==
  /\ DOMAIN rows = Alive
  /\ \A i \in Alive :
       /\ Ancestry(i) # {}
       /\ Cardinality(Ancestry(i)) - 1 <=
            MaxTreeDepth + IF NodeAt(i).kind = "file" THEN 1 ELSE 0
       /\ rows[i] = [NodeAt(i) EXCEPT !.target =
                       IF @ \in Alive THEN @ ELSE rows[i].target]
       /\ tree.kids[i] = {k \in Alive : NodeAt(k).up = i}
       /\ tree.kids[i] # {} => IsFolder(NodeAt(i))
       /\ \A k \in tree.kids[i] \ {i}, m \in tree.kids[i] :
            NodeAt(k).name = NodeAt(m).name => k = m
       /\ NodeAt(i).target \in Alive => NodeAt(NodeAt(i).target).kind # "alias"

\* What keeps file i from user s: a folder above it that does not let s in.
Keeps(f, s) ==
  IF f.kind = "dropbox" \/ ItemOfNode(f) = "db"
  THEN ~(ClassOfUser(s) >= AdminClass \/ f.owner = s)
  ELSE ClassOfUser(s) < f.read
Hidden(s) ==
  {i \in Alive : /\ NodeAt(i).kind = "file"
                 /\ \E a \in Ancestry(i) \ {i} : Keeps(NodeAt(a), s)}

\* A class gate or a drop box covers everything below it: no path, through
\* aliases or not, and no fresh catalogue shows a user a file it covers, and
\* no edit of that user's own deletes such a file or brings it within reach.
GatesHold ==
  [][/\ tree' # tree => \A s \in TreeUsers :
          (OpenForRead(s) \cap Hidden(s) = {})'
     /\ catalog' # catalog => \A s \in TreeUsers :
          (Search(s) \cap Hidden(s) = {})'
     /\ \A s \in TreeUsers :
          hand' = s => Hidden(s) \subseteq Hidden(s)']_treeVars
=============================================================================
