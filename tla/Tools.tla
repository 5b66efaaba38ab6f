-------------------------------- MODULE Tools --------------------------------
(***************************************************************************)
(* The sequential programs base64, pkgSort and BinSplit: in every behavior *)
(* `tool` says which one runs, and the variables of the others are idle;   *)
(* Base64 and BinSplit share two names.                                    *)
(***************************************************************************)
EXTENDS Integers

CONSTANTS
  TextFiles, Block, Quarter, Figures, LineCap,   \* of Base64
  Pkgs, Depends, Lists,                    \* of PkgSort
  Byte, BinFiles, nuhVct, bytesPerRead     \* of BinSplit

VARIABLES
  tool,
  file, at,                                                    \* Base64 and BinSplit
  enc, dec, pos, text, line, out,                              \* Base64
  getPkgDeps, asked, pkg_list, stack, active_list,             \* PkgSort
  ftell, feof, buf, findStart, findStartIdx, mOldNuh, mNewNuh, \* BinSplit
  preSize, foundBytes, nuSizeVct, cuts

B == INSTANCE Base64 WITH Files <- TextFiles
P == INSTANCE PkgSort
S == INSTANCE BinSplit WITH Files <- BinFiles

idle == "idle"

shared   == <<file, at>>
base64   == <<enc, dec, pos, text, line, out>>
pkgSort  == <<getPkgDeps, asked, pkg_list, stack, active_list>>
binSplit == <<ftell, feof, buf, findStart, findStartIdx, mOldNuh, mNewNuh, preSize, foundBytes,
              nuSizeVct, cuts>>
all      == <<tool, shared, base64, pkgSort, binSplit>>

SharedIdle == file = idle /\ at = idle
Base64Idle == enc = idle /\ dec = idle /\ pos = idle /\ text = idle /\ line = idle /\ out = idle
PkgIdle    ==
  /\ getPkgDeps = idle /\ asked = idle /\ pkg_list = idle /\ stack = idle /\ active_list = idle
SplitIdle  ==
  /\ ftell = idle /\ feof = idle /\ buf = idle /\ findStart = idle /\ findStartIdx = idle
  /\ mOldNuh = idle /\ mNewNuh = idle /\ preSize = idle /\ foundBytes = idle
  /\ nuSizeVct = idle /\ cuts = idle

ToolsInit ==
  \/ tool = "base64"   /\ B!Init /\ PkgIdle /\ SplitIdle
  \/ tool = "pkgSort"  /\ P!Init /\ SharedIdle /\ Base64Idle /\ SplitIdle
  \/ tool = "binSplit" /\ S!Init /\ Base64Idle /\ PkgIdle

RunBase64   == tool = "base64"   /\ B!Next /\ UNCHANGED <<tool, pkgSort, binSplit>>
RunPkgSort  == tool = "pkgSort"  /\ P!Next /\ UNCHANGED <<tool, shared, base64, binSplit>>
RunBinSplit == tool = "binSplit" /\ S!Next /\ UNCHANGED <<tool, base64, pkgSort>>

ToolsNext == RunBase64 \/ RunPkgSort \/ RunBinSplit

ToolsSpec == ToolsInit /\ [][ToolsNext]_all /\ WF_all(RunPkgSort)
-----------------------------------------------------------------------------
\* Base64: a file comes back exactly when its last line is padded and the same
\* program decodes it, and every block of the file is a full line.
FilesComeBack == tool = "base64" => B!ComesBack /\ B!LinesAreFull

\* pkgSort: every package that is needed is listed once and behind the dependencies
\* that do not depend on it.
ListedInOrder == tool = "pkgSort" => P!ListedInOrder

\* pkgSort: the search ends, on cycles too.
SearchEnds == <>[](tool = "pkgSort" => P!Done)

\* BinSplit: the sizes partition the file, and it is cut at start codes only, except
\* where two pieces meet.
UnitsPartitionFile == tool = "binSplit" => S!SizesPartition /\ S!CutsAtHeads
=============================================================================
