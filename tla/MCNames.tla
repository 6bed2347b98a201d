------------------------------ MODULE MCNames ------------------------------
(* An instance of Names for TLC. *)
EXTENDS Names, Mkfs

Perms == Permutations(Proc)

Used(type, nlink, size, b) ==
  [Dinode(type, nlink) EXCEPT !.size = size, !.addrs[0] = b]
Dots1(self, parent) == [NoEntries EXCEPT !["."] = self, ![".."] = parent]

(* "/" with the file a, one block long, and the empty directory d; both    *)
(* processes have opened the file.                                         *)
Flat ==
  [disk |->
     [inode |-> [i \in Inum |-> CASE i = 1 -> Used("dir", 2, BSIZE, 1)
                                  [] i = 2 -> Used("file", 1, 1, 2)
                                  [] i = 3 -> Used("dir", 1, BSIZE, 3)
                                  [] OTHER -> Dinode("free", 0)],
      dir |-> [i \in Inum |-> CASE i = 1 -> [Dots1(1, 1) EXCEPT !["a"] = 2, !["d"] = 3]
                                [] i = 3 -> Dots1(3, 1)
                                [] OTHER -> NoEntries],
      map |-> {1, 2, 3},
      blk |-> [b \in Block |-> Data]],
   open |-> [p \in Proc |-> 2],
   cwd |-> [p \in Proc |-> 1]]

(* "/" with the directories d and d/a; one process is in d/a. *)
Deep(inner) ==
  [disk |->
     [inode |-> [i \in Inum |-> CASE i = 1 -> Used("dir", 2, BSIZE, 1)
                                  [] i = 2 -> Used("dir", 1, BSIZE, 2)
                                  [] i = 3 -> Used("dir", 2, BSIZE, 3)
                                  [] OTHER -> Dinode("free", 0)],
      dir |-> [i \in Inum |-> CASE i = 1 -> [Dots1(1, 1) EXCEPT !["d"] = 3]
                                [] i = 2 -> Dots1(2, 3)
                                [] i = 3 -> [Dots1(3, 1) EXCEPT !["a"] = 2]
                                [] OTHER -> NoEntries],
      map |-> {1, 2, 3},
      blk |-> [b \in Block |-> Data]],
   open |-> [p \in Proc |-> 0],
   cwd |-> [p \in Proc |-> IF p = inner THEN 2 ELSE 1]]

(* The disk of mkfs with one file, two blocks and an indirect block long. *)
Fresh1 ==
  [disk |-> mkfs(<<[name |-> "a", size |-> BSIZE + 1]>>),
   open |-> [p \in Proc |-> 0],
   cwd |-> [p \in Proc |-> 1]]

MCStarts == {Flat, Fresh1} \cup {Deep(p) : p \in Proc}

Path(op, path) == [op |-> op, path |-> path]
OpenCall(path, omode) == [op |-> "open", path |-> path, omode |-> omode]
CreateCall(path, type) ==
  [op |-> "create", path |-> path, type |-> type, omode |-> {"write", "trunc"}]
LinkCall(path, new) == [op |-> "link", path |-> path, new |-> new]

MCCalls ==
  { OpenCall(<<"/", "a">>, {"write"}), OpenCall(<<"/", "d">>, {}),
    CreateCall(<<"a">>, "file"), CreateCall(<<"/", "d", "/", "a">>, "dir"),
    CreateCall(<<"/", "d">>, "nodevice"),
    CreateCall(<<"/", "d", "/", "a">>, "file"),
    LinkCall(<<"/", "a">>, <<"/", "d", "/", "a">>), LinkCall(<<"/", "a">>, <<"a">>),
    Path("unlink", <<"/", "a">>), Path("unlink", <<"/", "d", "/">>),
    Path("unlink", <<"/", "d", "/", "a">>),
    Path("chdir", <<"/", "d">>), Path("chdir", <<"..">>),
    [op |-> "close"], [op |-> "stat"], [op |-> "read", n |-> 4], [op |-> "write", n |-> 4] }
============================================================================
