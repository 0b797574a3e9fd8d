----------------------------- MODULE MCFileSpace -----------------------------
(* A finite instance of FileSpace for TLC. *)
EXTENDS FileSpaceRefinement

\* One request for every way through handleOpen.
Request(path, flags, mode) == [path |-> path, flags |-> flags, mode |-> mode]
Opens ==
    {Request("urandom", {}, 0), Request("urandom", {"directory"}, 0),
     Request("passwd", {}, 0), Request("features", {}, 0), Request("missing", {}, 0),
     Request("/", {"directory", "nofollowAny"}, 0), Request("/", {"directory"}, 0),
     Request(".", {"directory", "cloexec"}, 0), Request("entry", {"nonblock"}, 0),
     Request("entry", {"write"}, 0), Request("entry", {"nofollow"}, 0)}

SmallOffsets == {-1, 0, 1}
=============================================================================
