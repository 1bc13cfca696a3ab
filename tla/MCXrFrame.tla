----------------------------- MODULE MCXrFrame -----------------------------
(* D3D11 with the shipped settings and with the head pose locked, and      *)
(* Vulkan where its image handling is sound, with and without a desktop    *)
(* window to draw to.                                                      *)
EXTENDS XrFrame

Shipped == [vulkan |-> FALSE, lockHeadPose |-> FALSE, mirrorFails |-> FALSE,
            hidesFirst |-> FALSE, mayLose |-> TRUE]
Locked == [Shipped EXCEPT !.lockHeadPose = TRUE, !.mayLose = FALSE]
VulkanHidden == [Shipped EXCEPT !.vulkan = TRUE, !.hidesFirst = TRUE, !.mayLose = FALSE]
VulkanMirror == [VulkanHidden EXCEPT !.mirrorFails = TRUE]

SoundSetups == {Shipped, Locked, VulkanHidden, VulkanMirror}
=============================================================================
