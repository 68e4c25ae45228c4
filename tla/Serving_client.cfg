SPECIFICATION FairServingSpec
CONSTANTS
    Runs = {"r1", "r2"}
    Hosts = {"whole", "stripped", "wsgi", "pecan", "flask", "django", "fastapi"}
    Mounts <- MCMounts
    Forwarded <- MCForwarded
    MaxFrames = 2
    Beats = 2

    
PROPERTIES
    
    StreamIsOver
