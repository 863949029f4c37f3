------------------------------ MODULE MCFiles ------------------------------
(* Instances of module Files for TLC: a root directory whose one block is  *)
(* full, an empty directory, and room for two more inodes.                 *)
EXTENDS Files

(* Paths: a, bin, bin/a, /bin/.., and ".." *)
Path(abs, dirs, last) == [abs |-> abs, dirs |-> dirs, last |-> last]

MCRootDirs == <<"bin">>
MCPaths == {Path(FALSE, << >>, "a"), Path(TRUE, << >>, "bin"), Path(TRUE, <<"bin">>, "a"),
            Path(FALSE, <<"..">>, "")}
MCDoes == <<{"open", "lseek", "write", "close", "mkdir", "rmdir", "unlink", "mknod", "fork"},
            {"creat", "chdir", "chroot", "dup", "dup2", "fcntl", "read", "pipe", "close", "link",
             "stat", "sync", "execve", "exit"}>>
MCFlags == {{}, {"O_CREAT", "O_EXCL"}}
MCNodes == {[mode |-> "chr", dev |-> 5]}
=============================================================================
