SPECIFICATION Spec
CONSTANTS
    Streams = {stream}
    Services = {service}
    Tasks = {t1}
    NoTask = NoTask
    Stoppers = {}
PROPERTIES
    ServiceStopEnds
