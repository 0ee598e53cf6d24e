----------------------------- MODULE MCConfigure -----------------------------
(* A Xilinx project and two Intel ones, with and without an extlinux.conf,  *)
(* an entry whose preloader is missing, one that lists a file of BOOT's     *)
(* root, one without a kernel, one without a name; cards with and without a *)
(* raw partition, with two, and with no BOOT.                               *)
EXTENDS Configure

CONSTANTS x, i, j, kernel, conf, pre

MCBase == {kernel, conf, pre}
MCShipped == {<<d, kernel>> : d \in {x, i, j}} \cup {<<i, conf>>, <<i, pre>>, <<j, pre>>, <<Root, conf>>}

Xilinx(name, files) == [name |-> name, named |-> TRUE, intel |-> FALSE,
                        kernel |-> <<x, kernel>>, files |-> files, preloader |-> NoFile]
Intel(name, d, files, p) == [name |-> name, named |-> TRUE, intel |-> TRUE,
                             kernel |-> <<d, kernel>>, files |-> files, preloader |-> p]
MCEntry == {
  Xilinx("x", <<>>),
  Xilinx("rooted", <<<<Root, conf>>>>),
  Xilinx("again", <<<<Extlinux, conf>>>>),
  [Xilinx("bare", <<>>) EXCEPT !.kernel = NoFile],
  [Xilinx("", <<>>) EXCEPT !.named = FALSE],
  Intel("i", i, <<<<i, conf>>>>, <<i, pre>>),
  Intel("j", j, <<>>, <<j, pre>>),
  Intel("cut", j, <<>>, <<x, pre>>)}

Part(fs, hint, size) == [fs |-> fs, hint |-> hint, mounted |-> FALSE, size |-> size]
MCTable == {
  <<Part("vfat", TRUE, 2), Part("ext4", TRUE, 3), Part("", FALSE, 1)>>,
  <<Part("vfat", FALSE, 2), [Part("vfat", TRUE, 2) EXCEPT !.mounted = TRUE],
    Part("", FALSE, 2), Part("", FALSE, 1)>>,
  <<Part("vfat", TRUE, 2), Part("ext4", TRUE, 3)>>,
  <<Part("ext4", TRUE, 3)>>, <<>>}
=============================================================================
