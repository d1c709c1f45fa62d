SPECIFICATION MCSpec
CONSTANTS
    MaxEvents3D <- MCMaxEvents3D
    MaxGraphs = 2
    Keys = {1}
    Options2D = {"points", "units"}
    MaxDelta = 1
    MaxScale = 2
    MaxEvents2D = 4
INVARIANTS SurfacesAgree PanelsAndResourcesAgree  PictureAgrees
CHECK_DEADLOCK FALSE
