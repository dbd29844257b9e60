------------------------------ MODULE MCUnmount ------------------------------
(* Instances of Unmount for TLC: namespaces of an Android device with the    *)
(* mounts of root solutions in them.                                         *)
EXTENDS Unmount

Plain(at, dev, root, point) == Mount(at, dev, root, point, "ext4", "dev", <<"rw">>)

DataDir   == <<"/", "data">>
System    == <<"/", "system">>
SystemBin == <<"/", "system", "/", "bin">>
Ramdisk   == <<"/", "debug_ramdisk">>
AdbMod    == <<"/", "adb", "/", "mod">>

Rootfs == Plain(<<1>>, "root", Root, Root)
Data   == Plain(<<1, 2>>, "userdata", Root, DataDir)
(* A mount of the system's own that a root solution mounts over. *)
Bin    == Plain(<<1, 3>>, "vendor", Root, SystemBin)

(* Magisk's tmpfs with a mount on it, and a file of a module bound over Bin. *)
Magisk     == Mount(<<1, 4>>, "tmp", Root, Ramdisk, "tmpfs", "magisk", <<"rw">>)
MagiskSub  == Plain(<<1, 4, 5>>, "root", <<"/", "x">>, Ramdisk \o <<"/", "x">>)
ModuleBind == Plain(<<1, 3, 6>>, "userdata", AdbMod, SystemBin)

(* KernelSU's overlay over /system, its overlay over the /system/bin in it,  *)
(* and a mount of the system's own that was put on the first again.          *)
Ksu      == Mount(<<1, 7>>, "ovl", Root, System, "overlay", "KSU", <<"rw">>)
KsuBin   == Mount(<<1, 7, 8>>, "ovl2", Root, SystemBin, "overlay", "overlay",
                  <<"rw", ",", "lowerdir", "=">> \o DataDir \o AdbMod
                    \o <<"=", "2", ":", "/", "system", ",", "index", "=", "off">>)
KsuEtc   == Plain(<<1, 7, 9>>, "vendor", <<"/", "etc">>, System \o <<"/", "etc">>)

(* A mount that stays over one that goes, or over two. *)
Cover       == Plain(<<1, 3, 6, 10>>, "oem", Root, SystemBin)
SecondBind  == Plain(<<1, 3, 6, 18>>, "userdata", AdbMod, SystemBin)
SecondCover == Plain(<<1, 3, 6, 18, 10>>, "oem", Root, SystemBin)

(* A mount that was made without a source. *)
NoSource == Mount(<<1, 2, 14>>, "tmp2", Root, DataDir \o <<"/", "adb">>, "tmpfs", "", <<"rw">>)

(* A module's file, and over the way to it the system's own mounts: umount2  *)
(* of its path reaches the second of these.                                  *)
Beside     == Plain(<<1, 15>>, "userdata", AdbMod, SystemBin)
System2    == Plain(<<1, 16>>, "sys", Root, System)
System2Bin == Plain(<<1, 16, 17>>, "vendor", Root, SystemBin)

MCTables ==
  {<<Rootfs, Data, Bin, Magisk, MagiskSub, ModuleBind>>,
   <<Rootfs, Data, Bin, Ksu, KsuEtc, KsuBin>>,
   <<Rootfs, Data, NoSource, Bin, ModuleBind, Cover>>,
   <<Rootfs, Data, Beside, System2, System2Bin>>,
   <<Rootfs, Data, Bin, ModuleBind, SecondBind, SecondCover>>}

(* Something of the system's, and another module's bind mount. *)
MCArrivals ==
  {Plain(<<11>>, "usb", Root, SystemBin), Plain(<<12>>, "userdata", AdbMod, System)}

(* Three mounts that doUnmount leaves: one without a source, one at a path   *)
(* with a space in it, and a module's file where /data's device is mounted   *)
(* as a whole a second time.                                                 *)
LeftTables ==
  {<<Rootfs, Data, NoSource,
     Plain(<<1, 15>>, "tmp", Root, Ramdisk \o <<"/", "my", " ", "app">>),
     Plain(<<1, 13>>, "userdata", Root, <<"/", "mnt", "/", "mirror">>),
     Plain(<<1, 6>>, "userdata", AdbMod, SystemBin)>>}

NoArrivals == {}

MCTokens ==
  {"/", "data", "adb", "debug_ramdisk", "system", "bin", "etc", "mnt", "mirror", "mod",
   "x", "my", "app", Space, EscapedSpace, Comma, "=", ":", "2", "rw", "lowerdir", "index", "off"}
=============================================================================
